---------------------------- MODULE Spec2Model ----------------------------
(***************************************************************************)
(* A model of the extraction pipeline of the emergency-department display: *)
(* the cell tokenizer and the duty-table extractor of moh_scraper.py, the  *)
(* shift-table extractor of shift_parser.py and the shift handlers of      *)
(* cardiology_display.py.                                                  *)
(*                                                                         *)
(* Texts are sequences of symbols.  A symbol is a one-character string, or *)
(* a word standing for an unbreakable run of Greek letters of the source:  *)
(*   "G" = the letter Gamma, "N" = Nu, "P" = Pi, "." = the full stop,      *)
(*   "K" = the abbreviation KAT, "E" = the abbreviation ELPIS,             *)
(*   "x" = any other letter, " " = a blank, "\n" = a line break.           *)
(* An optional value (Python's None or a value) is the empty tuple or the  *)
(* one-element tuple of the value.                                         *)
(***************************************************************************)
EXTENDS Integers, Sequences, FiniteSets, TLC

VARIABLES
    pc,              \* the operation that ran last ("start" before any)
    text,            \* _extract_hospital_names: the cell text
    hospital_names,  \* _extract_hospital_names: the list returned
    pdf,             \* parse_pdf: the document behind pdf_content
    duty_date,       \* parse_pdf: the date the records are stamped with
    hospitals,       \* parse_pdf: the list returned
    site,            \* get_schedule_for_date: the listing page of the ministry
    served,          \* get_schedule_for_date: whether a download succeeds
    target_date,     \* get_schedule_for_date: the date asked for
    schedule,        \* get_schedule_for_date: the list returned
    requests,        \* get_schedule_for_date: the downloads and parses it made
    docx,            \* ShiftParser: the document at docx_path
    parser,          \* ShiftParser: the object (month_number, year, shifts)
    last,            \* ShiftParser: the last call, its result, the shifts before it
    cache_file,      \* ShiftParser: the file written by save_to_json (None: absent)
    loaded,          \* ShiftParser: what load_from_json returned
    edits,           \* ShiftParser: the number of update_shift calls made
    chosen,          \* load_shift_file: the document picked (None: dialog cancelled)
    answer,          \* load_shift_file: the reply to "continue?" on a month mismatch
    today,           \* load_shift_file: date.today(), its month and year
    shift_parser,    \* load_shift_file: the application's shift set (None: none)
    selected_date,   \* the application: the date shown
    current_shift,   \* the application: the record shown (None: none)
    prompted,        \* the application: prompt_for_shift_file is scheduled
    confirmed,       \* history: the set in the cache file was accepted by a
                     \* confirmation on a month mismatch
    dialog_day,      \* the application: the day in the title of the open edit
                     \* dialog (None: no dialog is open)
    all_hospitals,          \* the application: the records of the date shown
    filtered_hospitals,     \* the application: the records of the specialty shown
    selected_specialty,     \* the application: the specialty shown
    available_specialties,  \* the application: the values of the combobox
    hospitals_cache,        \* the file hospitals_on_duty.json (None: absent)
    service_hospitals,      \* AthensHospitalService: self.hospitals
    clock,           \* the daily refresh: datetime.now(), in ticks since midnight of day 0
    timers,          \* the daily refresh: the callbacks root.after holds, each with
                     \* the tick it is due at
    fired            \* history: the ticks at which auto_refresh was entered

tokVars == <<text, hospital_names>>
pdfVars == <<pdf, duty_date, hospitals>>
schVars == <<site, served, target_date, schedule, requests>>
shiftVars == <<docx, parser, last, cache_file, loaded, edits>>
guiVars == <<chosen, answer, today, shift_parser>>
appVars == <<selected_date, current_shift, prompted, confirmed, dialog_day>>
timVars == <<clock, timers, fired>>
refVars == <<all_hospitals, filtered_hospitals, selected_specialty,
             available_specialties, hospitals_cache, service_hospitals>>
vars == <<pc, text, hospital_names, pdf, duty_date, hospitals,
          site, served, target_date, schedule, requests,
          docx, parser, last, cache_file, loaded, edits,
          chosen, answer, today, shift_parser,
          selected_date, current_shift, prompted, confirmed, dialog_day,
          all_hospitals, filtered_hospitals, selected_specialty,
          available_specialties, hospitals_cache, service_hospitals,
          clock, timers, fired>>

\* the variables of the operations a specification leaves out, idle
IdleTok ==
    /\ text = <<>>
    /\ hospital_names = <<>>

IdlePdf ==
    /\ pdf = [opens |-> FALSE, pages |-> <<>>]
    /\ duty_date = "2025-10-14"
    /\ hospitals = <<>>

IdleSch ==
    /\ site = [ok |-> FALSE, links |-> <<>>]
    /\ served = FALSE
    /\ target_date = [day |-> 1, month |-> 1, year |-> 2025]
    /\ schedule = <<>>
    /\ requests = <<>>

IdleShift ==
    /\ docx = [opens |-> FALSE, paragraphs |-> <<>>, tables |-> <<>>]
    /\ parser = [month_number |-> <<>>, year |-> <<>>, shifts |-> <<>>]
    /\ last = [op |-> "none"]
    /\ cache_file = <<>>
    /\ loaded = <<>>
    /\ edits = 0

IdleGui ==
    /\ chosen = <<>>
    /\ answer = FALSE
    /\ today = [month |-> 10, year |-> 2025]
    /\ shift_parser = <<>>

IdleApp ==
    /\ selected_date = [day |-> 1, month |-> 1, year |-> 2025]
    /\ current_shift = <<>>
    /\ prompted = FALSE
    /\ confirmed = FALSE
    /\ dialog_day = <<>>

IdleRef ==
    /\ all_hospitals = <<>>
    /\ filtered_hospitals = <<>>
    /\ selected_specialty = <<"Kardiologia">>
    /\ available_specialties = <<>>
    /\ hospitals_cache = <<>>
    /\ service_hospitals = <<>>

IdleTim ==
    /\ clock = 0
    /\ timers = <<>>
    /\ fired = <<>>

None == <<>>
Some(x) == <<x>>
IsNone(o) == Len(o) = 0
Val(o) == o[1]

(***************************************************************************)
(* Python's str operations, on sequences of symbols.                       *)
(***************************************************************************)
Whitespace == {" ", "\n"}

\* s[i:] starts with p
MatchAt(s, p, i) ==
    /\ i + Len(p) - 1 <= Len(s)
    /\ \A k \in 1..Len(p) : s[i + k - 1] = p[k]

\* p in s
Contains(s, p) == \E i \in 1..(Len(s) + 1) : MatchAt(s, p, i)

\* s.startswith(p)
StartsWith(s, p) == MatchAt(s, p, 1)

RECURSIVE LStrip(_)
LStrip(s) ==
    IF s # <<>> /\ Head(s) \in Whitespace THEN LStrip(Tail(s)) ELSE s

RECURSIVE RStrip(_)
RStrip(s) ==
    IF s # <<>> /\ s[Len(s)] \in Whitespace
    THEN RStrip(SubSeq(s, 1, Len(s) - 1))
    ELSE s

\* s.strip()
Strip(s) == RStrip(LStrip(s))

\* s.split(sep) for a one-symbol separator: the pieces between the
\* separators, empty pieces kept
RECURSIVE SplitFrom(_, _, _, _)
SplitFrom(s, sep, i, cur) ==
    IF i > Len(s) THEN <<cur>>
    ELSE IF s[i] = sep THEN <<cur>> \o SplitFrom(s, sep, i + 1, <<>>)
    ELSE SplitFrom(s, sep, i + 1, Append(cur, s[i]))

Split(s, sep) == SplitFrom(s, sep, 1, <<>>)

RECURSIVE Flatten(_)
Flatten(ss) == IF ss = <<>> THEN <<>> ELSE Head(ss) \o Flatten(Tail(ss))

\* the sequences over S of length 0..n
SeqsUpTo(S, n) == UNION {[1..k -> S] : k \in 0..n}

(***************************************************************************)
(* moh_scraper.py: the registry and the cell tokenizer.                    *)
(***************************************************************************)
\* The institutional prefix token the tokenizer splits on and re-prepends.
GN == <<"G", ".", "N", ".">>

\* HOSPITAL_NAMES, in the dictionary's order: two of its 24 entries.  A full
\* name is a one-symbol text no cell contains.
HOSPITAL_NAMES ==
    << [abbr |-> <<"E">>, full |-> <<"Elpis">>],
       [abbr |-> <<"K">>, full |-> <<"Kat">>] >>

\* re.split(r'\n|G\.N\.', text): leftmost, non-overlapping separators
RECURSIVE ReSplitFrom(_, _, _)
ReSplitFrom(s, i, cur) ==
    IF i > Len(s) THEN <<cur>>
    ELSE IF s[i] = "\n" THEN <<cur>> \o ReSplitFrom(s, i + 1, <<>>)
    ELSE IF MatchAt(s, GN, i) THEN <<cur>> \o ReSplitFrom(s, i + Len(GN), <<>>)
    ELSE ReSplitFrom(s, i + 1, Append(cur, s[i]))

ReSplit(s) == ReSplitFrom(s, 1, <<>>)

\* the indexes of the registry entries whose abbreviation the line contains
Matching(line) ==
    {i \in 1..Len(HOSPITAL_NAMES) : Contains(line, HOSPITAL_NAMES[i].abbr)}

\* "for abbr, full_name in HOSPITAL_NAMES.items(): if abbr in line: ... break"
FirstMatch(line) ==
    LET m == CHOOSE i \in Matching(line) : \A j \in Matching(line) : i <= j
    IN  HOSPITAL_NAMES[m].full

\* the prefix is re-prepended unless the line starts with G., P. or N.
Prepended(line) ==
    IF /\ ~StartsWith(line, <<"G", ".">>)
       /\ ~StartsWith(line, <<"P", ".">>)
       /\ ~StartsWith(line, <<"N", ".">>)
    THEN GN \o line
    ELSE line

\* the for-else branch: an unmatched line is kept if it looks like an institution
LooksInstitutional(line) ==
    \/ Contains(line, GN)
    \/ Contains(line, <<"P", ".">> \o GN)
    \/ Contains(line, <<"N", ".">>)

\* one pass of the loop body over a fragment: the names it appends
LineNames(fragment) ==
    LET stripped == Strip(fragment)
        line == Prepended(stripped)
    IN  IF stripped = <<>> THEN <<>>
        ELSE IF Matching(line) # {} THEN <<FirstMatch(line)>>
        ELSE IF LooksInstitutional(line) THEN <<line>>
        ELSE <<>>

\* the tokenizer with neither test for a blank text: no early return and
\* no "if not line: continue"
extract_hospital_names_of_blank(t) ==
    LET lines == ReSplit(t)
        Names(fragment) ==
            LET line == Prepended(Strip(fragment))
            IN  IF Matching(line) # {} THEN <<FirstMatch(line)>>
                ELSE IF LooksInstitutional(line) THEN <<line>>
                ELSE <<>>
    IN  Flatten([i \in DOMAIN lines |-> Names(lines[i])])

RECURSIVE NamesOfLines(_)
NamesOfLines(lines) ==
    IF lines = <<>> THEN <<>>
    ELSE LineNames(Head(lines)) \o NamesOfLines(Tail(lines))

extract_hospital_names(t) ==
    IF t = <<>> \/ Strip(t) = <<>> THEN <<>> ELSE NamesOfLines(ReSplit(t))

(***************************************************************************)
(* The tokenizer applied to the cell texts made of at most MaxPieces of    *)
(* the pieces below.                                                       *)
(***************************************************************************)
MaxPieces == 4

Pieces ==
    { GN, <<"G", ".">>, <<"N", ".">>, <<"P", ".">>, <<"K">>, <<"E">>,
      <<"x">>, <<" ">>, <<"\n">> }

TextSet == {Flatten(ps) : ps \in SeqsUpTo(Pieces, MaxPieces)}

InitTok ==
    /\ pc = "start"
    /\ text \in TextSet
    /\ hospital_names = <<>>
    /\ IdlePdf
    /\ IdleSch
    /\ IdleShift
    /\ IdleGui
    /\ IdleApp
    /\ IdleRef
    /\ IdleTim

Tokenize ==
    /\ pc = "start"
    /\ hospital_names' = extract_hospital_names(text)
    /\ pc' = "extract_hospital_names"
    /\ UNCHANGED <<text, pdfVars, schVars, shiftVars, guiVars, appVars, refVars, timVars>>

NextTok == Tokenize

SpecTok == InitTok /\ [][NextTok]_vars

(***************************************************************************)
(* C2.  A cell text made of N newline-separated mentions, each holding a   *)
(* known abbreviation, is tokenized to exactly N canonical names, the i-th *)
(* the canonical name of the i-th mention.  A mention is taken here in its *)
(* least disputable form: a line in which exactly one registry             *)
(* abbreviation occurs, exactly once.                                      *)
(***************************************************************************)
Occurrences(line) ==
    {<<i, k>> \in (1..Len(HOSPITAL_NAMES)) \X (1..Len(line)) :
        MatchAt(line, HOSPITAL_NAMES[i].abbr, k)}

IsMention(line) == Cardinality(Occurrences(line)) = 1

Mentions(t) == Split(t, "\n")

IsMentionCell(t) == \A i \in 1..Len(Mentions(t)) : IsMention(Mentions(t)[i])

CanonicalOf(mention) == FirstMatch(mention)

C2_OneNamePerMention ==
    (pc = "extract_hospital_names" /\ IsMentionCell(text)) =>
        hospital_names =
            [i \in 1..Len(Mentions(text)) |-> CanonicalOf(Mentions(text)[i])]

(***************************************************************************)
(* moh_scraper.py: the duty-table extractor, parse_pdf.                    *)
(*                                                                         *)
(* A document is [opens, pages]: opens is whether pdfplumber.open accepts  *)
(* the bytes; a page is [throws, tables]: throws is whether                *)
(* page.extract_tables() raises; a table is a sequence of rows, a row a    *)
(* sequence of cells, a cell an optional text.  In a specialty text        *)
(* "Klin" = the header literal, "Kard" = a raw label of the registry and   *)
(* "Other" = a label the registry does not hold.                           *)
(***************************************************************************)
Klinikes == <<"Klin">>

\* SPECIALTY_NAMES: one of its 28 entries
SPECIALTY_NAMES ==
    << [raw |-> <<"Kard">>, display |-> <<"Kardiologia / Cardiology">>] >>

\* SPECIALTY_NAMES.get(specialty, specialty)
SpecialtyDisplay(specialty) ==
    IF \E i \in 1..Len(SPECIALTY_NAMES) : SPECIALTY_NAMES[i].raw = specialty
    THEN LET i == CHOOSE i \in 1..Len(SPECIALTY_NAMES) :
                      SPECIALTY_NAMES[i].raw = specialty
         IN  SPECIALTY_NAMES[i].display
    ELSE specialty

\* time_slots with the labels of the last two columns exchanged
time_slots_exchanged ==
    << "08:00-14:30", "08:00-16:00", "08:00-23:00",
       "08:00-08:00 next day", "14:30-08:00 next day" >>

\* time_slots: the label of column col_idx = 1..5
time_slots ==
    << "08:00-14:30", "08:00-16:00", "08:00-23:00",
       "14:30-08:00 next day", "08:00-08:00 next day" >>

Hospital(name, specialty, time_slot, on_duty_date) ==
    [name |-> name, specialty |-> specialty, time_slot |-> time_slot,
     on_duty_date |-> on_duty_date]

\* a cell that Python takes as true: not None and not the empty text
Truthy(c) == ~IsNone(c) /\ Val(c) # <<>>

\* "for time_label, col_idx in time_slots": the records of one column; the
\* cell of Python index col_idx is row[col_idx + 1] here
ColumnRecords(row, col_idx, specialty_display, date) ==
    IF col_idx < Len(row) /\ Truthy(row[col_idx + 1])
    THEN LET names == extract_hospital_names(Val(row[col_idx + 1]))
         IN  [i \in 1..Len(names) |->
                 Hospital(names[i], specialty_display, time_slots[col_idx], date)]
    ELSE <<>>

\* the body of the row loop without "if not specialty": a blank specialty
\* column does not end the row
RowRecordsOfBlank(row, date) ==
    IF Len(row) < 2 THEN <<>>
    ELSE LET specialty == IF Truthy(row[1]) THEN Strip(Val(row[1])) ELSE <<>>
         IN  IF specialty = Klinikes THEN <<>>
             ELSE Flatten([col_idx \in 1..Len(time_slots) |->
                      ColumnRecords(row, col_idx, SpecialtyDisplay(specialty), date)])

\* the body of "for row in table[header_row + 1:]"
RowRecords(row, date) ==
    IF Len(row) < 2 THEN <<>>
    ELSE LET specialty == IF Truthy(row[1]) THEN Strip(Val(row[1])) ELSE <<>>
         IN  IF specialty = <<>> \/ specialty = Klinikes THEN <<>>
             ELSE Flatten([col_idx \in 1..Len(time_slots) |->
                      ColumnRecords(row, col_idx, SpecialtyDisplay(specialty), date)])

\* "row and 'Klinikes' in str(row)": the marker occurs in the text of a cell
HasMarker(row) ==
    \E k \in 1..Len(row) : ~IsNone(row[k]) /\ Contains(Val(row[k]), Klinikes)

\* the rows scanned for the header: table[:5]
HeaderScan == 5

\* a header row looked for in the whole table instead of table[:5]
HeaderRowAnywhere(table) ==
    LET found == {i \in 1..Len(table) : HasMarker(table[i])}
    IN  IF found = {} THEN 0
        ELSE CHOOSE i \in found : \A j \in found : i <= j

\* the index (from 1) of the header row, or 0 when "header_row is None"
HeaderRow(table) ==
    LET found == {i \in 1..Len(table) : i <= HeaderScan /\ HasMarker(table[i])}
    IN  IF found = {} THEN 0
        ELSE CHOOSE i \in found : \A j \in found : i <= j

\* the body of "for table in tables"
TableRecords(table, date) ==
    IF Len(table) < 2 \/ HeaderRow(table) = 0 THEN <<>>
    ELSE Flatten([k \in 1..(Len(table) - HeaderRow(table)) |->
             RowRecords(table[HeaderRow(table) + k], date)])

PageRecords(page, date) ==
    Flatten([t \in 1..Len(page.tables) |-> TableRecords(page.tables[t], date)])

\* "for page in pdf.pages", inside try/except: the first page whose
\* extraction raises ends the loop, and what was appended before is returned
RECURSIVE PagesRecords(_, _)
PagesRecords(pages, date) ==
    IF pages = <<>> \/ Head(pages).throws THEN <<>>
    ELSE PageRecords(Head(pages), date) \o PagesRecords(Tail(pages), date)

parse_pdf(doc, date) ==
    IF ~doc.opens THEN <<>> ELSE PagesRecords(doc.pages, date)

(***************************************************************************)
(* parse_pdf applied to three families of documents: one data row of every *)
(* shape under a header row; one table of up to MaxTableRows rows with the *)
(* header marker anywhere; and up to MaxPages pages of a few kinds.        *)
(***************************************************************************)
MaxCols == 6
MaxTableRows == 7
MaxPages == 2

SpecialtyCells ==
    { None, Some(<<>>), Some(<<" ">>), Some(Klinikes), Some(<<"Kard">>),
      Some(<<" ", "Other">>) }

DataCells ==
    { None, Some(<<>>), Some(<<"K", "\n", "E">>), Some(<<"K", "\n", "K">>) }

\* every row of 0..MaxCols cells: a specialty cell, then data cells
RowSet ==
    UNION {[1..n -> SpecialtyCells \cup DataCells] : n \in 0..1} \cup
    UNION {{<<s>> \o r : s \in SpecialtyCells, r \in [1..n -> DataCells]} :
               n \in 1..(MaxCols - 1)}

TheHeaderRow == <<Some(Klinikes), Some(<<"x">>)>>
RowA == <<Some(<<"Kard">>), Some(<<"K">>)>>
RowB == <<Some(<<" ", "Other">>), None, Some(<<"E", "\n", "K">>)>>
MarkerRow == <<Some(<<"Kard">>), Some(<<"x", "Klin">>)>>

OnePage(tables) == [opens |-> TRUE, pages |-> <<[throws |-> FALSE, tables |-> tables]>>]

RowDocs == {OnePage(<< <<TheHeaderRow, r>> >>) : r \in RowSet}

HeaderDocs ==
    {OnePage(<<t>>) : t \in SeqsUpTo({TheHeaderRow, RowA, MarkerRow}, MaxTableRows)}

PageSet ==
    { [throws |-> TRUE, tables |-> <<>>],
      [throws |-> FALSE, tables |-> <<>>],
      [throws |-> FALSE, tables |-> << <<TheHeaderRow>> >>],
      [throws |-> FALSE, tables |-> << <<TheHeaderRow, RowA>> >>],
      [throws |-> FALSE, tables |-> << <<TheHeaderRow, RowB>> >>],
      [throws |-> FALSE, tables |-> << <<RowA>>, <<TheHeaderRow, RowB, RowA>> >>] }

StructDocs ==
    {[opens |-> o, pages |-> ps] : o \in BOOLEAN, ps \in SeqsUpTo(PageSet, MaxPages)}

PdfSet == RowDocs \cup HeaderDocs \cup StructDocs

DateSet == {"2025-10-14", "2025-10-15"}

InitPdf ==
    /\ pc = "start"
    /\ pdf \in PdfSet
    /\ duty_date \in DateSet
    /\ hospitals = <<>>
    /\ IdleTok
    /\ IdleSch
    /\ IdleShift
    /\ IdleGui
    /\ IdleApp
    /\ IdleRef
    /\ IdleTim

ParsePdf ==
    /\ pc = "start"
    /\ hospitals' = parse_pdf(pdf, duty_date)
    /\ pc' = "parse_pdf"
    /\ UNCHANGED <<pdf, duty_date, tokVars, schVars, shiftVars, guiVars, appVars, refVars, timVars>>

NextPdf == ParsePdf

SpecPdf == InitPdf /\ [][NextPdf]_vars


(***************************************************************************)
(* What the claims say a document yields, written from the claims.         *)
(***************************************************************************)
SlotLabel(c) ==
    CASE c = 1 -> "08:00-14:30"
      [] c = 2 -> "08:00-16:00"
      [] c = 3 -> "08:00-23:00"
      [] c = 4 -> "14:30-08:00 next day"
      [] c = 5 -> "08:00-08:00 next day"

Normalized(S) == IF S = <<"Kard">> THEN <<"Kardiologia / Cardiology">> ELSE S

\* the trimmed text of column 0, empty when the cell is missing or None
SpecialtyOf(row) ==
    IF Len(row) >= 1 /\ row[1] # None THEN Strip(row[1][1]) ELSE <<>>

\* one record per name the tokenizer returns for the cell of column c
ClaimedCell(row, c, date) ==
    IF c + 1 > Len(row) \/ row[c + 1] = None \/ row[c + 1] = Some(<<>>)
    THEN <<>>
    ELSE LET names == extract_hospital_names(row[c + 1][1])
         IN  [i \in DOMAIN names |->
                 [name |-> names[i], specialty |-> Normalized(SpecialtyOf(row)),
                  time_slot |-> SlotLabel(c), on_duty_date |-> date]]

ClaimedRow(row, date, literalSkipped) ==
    IF SpecialtyOf(row) = <<>> \/ (literalSkipped /\ SpecialtyOf(row) = Klinikes)
    THEN <<>>
    ELSE ClaimedCell(row, 1, date) \o ClaimedCell(row, 2, date) \o
         ClaimedCell(row, 3, date) \o ClaimedCell(row, 4, date) \o
         ClaimedCell(row, 5, date)

\* the data rows of a table: the rows below its header row
DataRows(table) ==
    IF Len(table) < 2 \/ HeaderRow(table) = 0 THEN <<>>
    ELSE SubSeq(table, HeaderRow(table) + 1, Len(table))

ClaimedTable(table, date, literalSkipped) ==
    Flatten([k \in DOMAIN DataRows(table) |->
        ClaimedRow(DataRows(table)[k], date, literalSkipped)])

ClaimedDoc(doc, date, literalSkipped) ==
    Flatten([p \in DOMAIN doc.pages |->
        Flatten([t \in DOMAIN doc.pages[p].tables |->
            ClaimedTable(doc.pages[p].tables[t], date, literalSkipped)])])

\* every table of the document is read: it opens and no page raises
AllRead(doc) == doc.opens /\ \A p \in DOMAIN doc.pages : ~doc.pages[p].throws

(***************************************************************************)
(* C3, as claimed.  Every data row below the header with a non-blank       *)
(* specialty S yields exactly one record per name the tokenizer returns    *)
(* for each non-empty cell of columns 1..5, with the normalized S, the     *)
(* fixed label of the column and the target date, and nothing else.        *)
(***************************************************************************)
C3_RowRecords_AsClaimed ==
    (pc = "parse_pdf" /\ AllRead(pdf)) =>
        hospitals = ClaimedDoc(pdf, duty_date, FALSE)

(***************************************************************************)
(* C3, amended.  The same for every data row whose non-blank specialty is  *)
(* not the header literal; a row whose specialty is the header literal     *)
(* yields nothing.                                                         *)
(***************************************************************************)
C3_RowRecords ==
    (pc = "parse_pdf" /\ AllRead(pdf)) =>
        hospitals = ClaimedDoc(pdf, duty_date, TRUE)

\* a row with a normalized specialty filled in its last column and in an
\* earlier one, two names each
C3_Witness ==
    /\ pc = "parse_pdf"
    /\ Len(hospitals) = 4
    /\ hospitals[1].time_slot = "08:00-14:30"
    /\ hospitals[4].time_slot = "08:00-08:00 next day"
    /\ hospitals[4].specialty = <<"Kardiologia / Cardiology">>
    /\ hospitals[4].name = <<"Elpis">>

(***************************************************************************)
(* C4.  No two records of one extraction have the same (hospital name,     *)
(* specialty, time-slot, date).                                            *)
(***************************************************************************)
RecordKey(h) == <<h.name, h.specialty, h.time_slot, h.on_duty_date>>

C4_NoDuplicateRecords ==
    pc = "parse_pdf" =>
        \A i, j \in DOMAIN hospitals :
            i # j => RecordKey(hospitals[i]) # RecordKey(hospitals[j])

(***************************************************************************)
(* C6.  A table with fewer than 2 rows, or one whose extraction raises, is *)
(* skipped and the remaining tables are still processed: the result is     *)
(* the records of every page whose extraction does not raise.              *)
(***************************************************************************)
RemainingProcessed(doc, date) ==
    IF ~doc.opens THEN <<>>
    ELSE Flatten([p \in DOMAIN doc.pages |->
             IF doc.pages[p].throws THEN <<>>
             ELSE PageRecords(doc.pages[p], date)])

C6_MalformedTableSkipped ==
    pc = "parse_pdf" => hospitals = RemainingProcessed(pdf, duty_date)


(***************************************************************************)
(* moh_scraper.py: get_available_files, download_file and                  *)
(* get_schedule_for_date.                                                  *)
(*                                                                         *)
(* The listing page is [ok, links]: ok is whether the page is fetched      *)
(* without an exception; a link is [href, text], href the optional number  *)
(* that follows "fdl=" in the link's address (None when the address has no *)
(* "fdl=" followed by digits).  In a label the weekday, the month name,    *)
(* the year and the file extension are one symbol each and the day number  *)
(* is written in digits.                                                   *)
(***************************************************************************)
DigitSymbols == <<"0", "1", "2", "3", "4", "5", "6", "7", "8", "9">>

\* str(n) of a natural number, in digits
RECURSIVE Digits(_)
Digits(n) ==
    IF n < 10 THEN <<DigitSymbols[n + 1]>>
    ELSE Append(Digits(n \div 10), DigitSymbols[(n % 10) + 1])

\* greek_months of get_schedule_for_date
greek_months ==
    << "IANOUARIOU", "FEBROUARIOU", "MARTIOU", "APRILIOU", "MAIOU", "IOUNIOU",
       "IOULIOU", "AUGOUSTOU", "SEPTEMBRIOU", "OKTOBRIOU", "NOEMBRIOU",
       "DEKEMBRIOU" >>

\* f"{target_date.day} {greek_months[target_date.month]} {target_date.year}",
\* without the day
date_str_without_day(d) ==
    <<greek_months[d.month], " ", ToString(d.year)>>

\* f"{target_date.day} {greek_months[target_date.month]} {target_date.year}"
date_str(d) ==
    Digits(d.day) \o <<" ", greek_months[d.month], " ", ToString(d.year)>>

\* target_date.isoformat()
Pad2(n) == IF n < 10 THEN "0" \o ToString(n) ELSE ToString(n)
isoformat(d) == ToString(d.year) \o "-" \o Pad2(d.month) \o "-" \o Pad2(d.day)

\* text.lower(), on the symbols a label is made of
LowerSymbol(c) == IF c = ".PDF" THEN ".pdf" ELSE c
Lower(t) == [i \in DOMAIN t |-> LowerSymbol(t[i])]

\* the test of one link, and the file it lists
IsListed(link) ==
    /\ ~IsNone(link.href)
    /\ (Contains(link.text, <<"2025">>) \/ Contains(link.text, <<"2024">>))

FileOf(link) ==
    [text |-> link.text, fdl |-> Val(link.href),
     file_type |-> IF Contains(Lower(link.text), <<".pdf">>) THEN "pdf" ELSE "doc"]

RECURSIVE ListedFiles(_)
ListedFiles(links) ==
    IF links = <<>> THEN <<>>
    ELSE (IF IsListed(Head(links)) THEN <<FileOf(Head(links))>> ELSE <<>>)
             \o ListedFiles(Tail(links))

get_available_files(s) == IF ~s.ok THEN <<>> ELSE ListedFiles(s.links)

\* "for file_text, fdl, file_type in files: if date_str in file_text: ... break":
\* the optional first file whose label contains the date string
matching_file(files, d) ==
    LET hits == {i \in DOMAIN files : Contains(files[i].text, date_str(d))}
    IN  IF hits = {} THEN None
        ELSE Some(files[CHOOSE i \in hits : \A j \in hits : i <= j])

\* the document the site serves for a file number
ServedDoc(fdl) ==
    [opens |-> TRUE,
     pages |-> <<[throws |-> FALSE,
                  tables |-> << << <<Some(Klinikes), Some(<<"x">>)>>,
                                   <<Some(<<"Kard">>), Some(<<"K">>)>>,
                                   <<Some(<<"Other">>), Some(Digits(fdl))>>,
                                   <<Some(<<"Kardiologia Paidon">>), Some(<<"E">>)>> >> >>]>>]

\* download_file: the content, or None when the request fails
download_file(fdl, ok) == IF ok THEN Some(ServedDoc(fdl)) ELSE None

\* parse_doc: the stub returns the empty list
parse_doc(doc, date) == <<>>

\* [out: the list returned, requests: the downloads and parses made]
get_schedule_for_date(s, ok, d) ==
    LET m == matching_file(get_available_files(s), d)
    IN  IF IsNone(m) THEN [out |-> <<>>, requests |-> <<>>]
        ELSE LET f == Val(m)
                 content == download_file(f.fdl, ok)
                 dl == [op |-> "download_file", fdl |-> f.fdl]
             IN  IF IsNone(content) THEN [out |-> <<>>, requests |-> <<dl>>]
                 ELSE IF f.file_type = "pdf"
                 THEN [out |-> parse_pdf(Val(content), isoformat(d)),
                       requests |-> <<dl, [op |-> "parse_pdf", fdl |-> f.fdl]>>]
                 ELSE [out |-> parse_doc(Val(content), isoformat(d)),
                       requests |-> <<dl, [op |-> "parse_doc", fdl |-> f.fdl]>>]

(***************************************************************************)
(* get_schedule_for_date applied to the listings of at most MaxLinks links *)
(* and to dates of two days, two months and two years.                     *)
(***************************************************************************)
MaxLinks == 3

Label(weekday, day, month, year, ext) ==
    <<weekday, " ">> \o Digits(day) \o <<" ", greek_months[month], " ", ToString(year)>>
        \o ext

LinkSet ==
    { [href |-> Some(1), text |-> Label("TRITI", 14, 10, 2025, <<".pdf">>)],
      [href |-> Some(2), text |-> Label("SABBATO", 4, 10, 2025, <<".pdf">>)],
      [href |-> None,    text |-> Label("SABBATO", 4, 10, 2025, <<".pdf">>)],
      [href |-> Some(3), text |-> Label("TRITI", 4, 11, 2025, <<>>)],
      [href |-> Some(4), text |-> Label("KYRIAKI", 4, 10, 2026, <<".pdf">>)],
      [href |-> Some(5), text |-> Label("TETARTI", 14, 11, 2025, <<".PDF">>)],
      [href |-> Some(6), text |-> <<"x">>] }

SiteSet == {[ok |-> o, links |-> ls] : o \in BOOLEAN, ls \in SeqsUpTo(LinkSet, MaxLinks)}

TargetDates ==
    {[day |-> d, month |-> m, year |-> y] : d \in {4, 14}, m \in {10, 11}, y \in {2025, 2026}}

InitSch ==
    /\ pc = "start"
    /\ site \in SiteSet
    /\ served \in BOOLEAN
    /\ target_date \in TargetDates
    /\ schedule = <<>>
    /\ requests = <<>>
    /\ IdleTok
    /\ IdlePdf
    /\ IdleShift
    /\ IdleGui
    /\ IdleApp
    /\ IdleRef
    /\ IdleTim

GetScheduleForDate ==
    /\ pc = "start"
    /\ schedule' = get_schedule_for_date(site, served, target_date).out
    /\ requests' = get_schedule_for_date(site, served, target_date).requests
    /\ pc' = "get_schedule_for_date"
    /\ UNCHANGED <<site, served, target_date, tokVars, pdfVars, shiftVars, guiVars, appVars, refVars, timVars>>

NextSch == GetScheduleForDate

SpecSch == InitSch /\ [][NextSch]_vars

(***************************************************************************)
(* C5.  When no listed label contains the label built for the date, also   *)
(* when the listing cannot be fetched, get_schedule_for_date returns the   *)
(* empty list and neither downloads nor parses anything.                   *)
(***************************************************************************)
NoListedLabelMatches ==
    \A i \in DOMAIN get_available_files(site) :
        ~Contains(get_available_files(site)[i].text,
                  Digits(target_date.day) \o
                      <<" ", greek_months[target_date.month], " ",
                        ToString(target_date.year)>>)

C5_NoMatchEmpty ==
    (pc = "get_schedule_for_date" /\ NoListedLabelMatches) =>
        (schedule = <<>> /\ requests = <<>>)

\* a fetched listing of two files, for other days, and a site that serves
C5_Witness ==
    /\ pc = "get_schedule_for_date"
    /\ NoListedLabelMatches
    /\ Len(get_available_files(site)) >= 2
    /\ served
    /\ schedule = <<>>
    /\ requests = <<>>


(***************************************************************************)
(* shift_parser.py: DailyShift and ShiftParser.                            *)
(*                                                                         *)
(* A document is [opens, paragraphs, tables]: opens is whether Document()  *)
(* accepts the file; a paragraph is a text of word symbols (a month name,  *)
(* a year, another word); a table is a sequence of rows and a row the      *)
(* sequence of the texts of its cells.  In a cell a day is written in      *)
(* digits, a person's name is one symbol, "*" is the asterisk.             *)
(***************************************************************************)
\* GREEK_MONTHS, in the dictionary's order: the entries of two months
GREEK_MONTHS ==
    << [name |-> "OKTOBRIOS", num |-> 10], [name |-> "OKTOBRIOU", num |-> 10],
       [name |-> "NOEMBRIOS", num |-> 11], [name |-> "NOEMBRIOU", num |-> 11] >>

\* str.upper(), on the symbols a paragraph is made of
UpperSymbol(c) ==
    CASE c = "oktobrios" -> "OKTOBRIOS"
      [] c = "noembrios" -> "NOEMBRIOS"
      [] OTHER -> c

Upper(t) == [i \in DOMAIN t |-> UpperSymbol(t[i])]

\* the words r'\b(20\d{2})\b' matches, and int() of each
YearWords == {"2024", "2025", "2026"}

YearValue(w) ==
    CASE w = "2024" -> 2024
      [] w = "2025" -> 2025
      [] w = "2026" -> 2026

\* re.search(r'\b(20\d{2})\b', text): the optional leftmost year
YearIn(t) ==
    LET hits == {i \in DOMAIN t : t[i] \in YearWords}
    IN  IF hits = {} THEN None
        ELSE Some(YearValue(t[CHOOSE i \in hits : \A j \in hits : i <= j]))

\* the optional (month, year) one paragraph yields: the first month name of
\* GREEK_MONTHS the text contains, if the text holds a year too
ParagraphMarker(para) ==
    LET t == Upper(Strip(para))
        months == {i \in DOMAIN GREEK_MONTHS : Contains(t, <<GREEK_MONTHS[i].name>>)}
    IN  IF months = {} \/ IsNone(YearIn(t)) THEN None
        ELSE Some([month |-> GREEK_MONTHS[CHOOSE i \in months :
                                 \A j \in months : i <= j].num,
                   year |-> Val(YearIn(t))])

\* _extract_month_year that takes the month and the year from anywhere in
\* the document
extract_month_year_anywhere(paragraphs) == ParagraphMarker(Flatten(paragraphs))

\* _extract_month_year: the optional marker of the first paragraph with one
RECURSIVE extract_month_year(_)
extract_month_year(paragraphs) ==
    IF paragraphs = <<>> THEN None
    ELSE IF ~IsNone(ParagraphMarker(Head(paragraphs)))
    THEN ParagraphMarker(Head(paragraphs))
    ELSE extract_month_year(Tail(paragraphs))

\* the value of a digit symbol, -1 for any other symbol
DigitValue(c) ==
    IF \E k \in 1..10 : DigitSymbols[k] = c
    THEN (CHOOSE k \in 1..10 : DigitSymbols[k] = c) - 1
    ELSE -1

IsDigits(t) == t # <<>> /\ \A i \in DOMAIN t : DigitValue(t[i]) >= 0

RECURSIVE DigitsValue(_)
DigitsValue(t) ==
    IF t = <<>> THEN 0
    ELSE 10 * DigitsValue(SubSeq(t, 1, Len(t) - 1)) + DigitValue(t[Len(t)])

\* int(s): the optional integer a text denotes (blanks around it and a sign
\* before the digits allowed), None where int() raises ValueError
PyInt(s) ==
    LET t == Strip(s)
    IN  IF t # <<>> /\ Head(t) = "-" /\ IsDigits(Tail(t))
        THEN Some(0 - DigitsValue(Tail(t)))
        ELSE IF t # <<>> /\ Head(t) = "+" /\ IsDigits(Tail(t))
        THEN Some(DigitsValue(Tail(t)))
        ELSE IF IsDigits(t) THEN Some(DigitsValue(t))
        ELSE None

\* str(n) of an integer
PyStr(n) == IF n < 0 THEN <<"-">> \o Digits(0 - n) ELSE Digits(n)

RoleFields ==
    { "major_shift", "minor_shift", "tep_cardiologist", "senior_cardiac_surgeon",
      "junior_cardiac_surgeon", "anesthesiologist_1", "anesthesiologist_2",
      "pediatric_cardiologist" }

\* DailyShift(day=, month_name=, weekday=, attendings=): the roles default to None
DailyShift(day, month_name, weekday, attendings) ==
    [day |-> day, month_name |-> month_name, weekday |-> weekday,
     attendings |-> attendings,
     major_shift |-> None, minor_shift |-> None, tep_cardiologist |-> None,
     senior_cardiac_surgeon |-> None, junior_cardiac_surgeon |-> None,
     anesthesiologist_1 |-> None, anesthesiologist_2 |-> None,
     pediatric_cardiologist |-> None]

\* self.shifts[day] = shift
Put(shifts, day, shift) ==
    [d \in (DOMAIN shifts) \cup {day} |-> IF d = day THEN shift ELSE shifts[d]]

\* [cell.text.strip() for cell in row.cells]
Cells(row) == [i \in DOMAIN row |-> Strip(row[i])]

\* the names of a cell: split on line breaks, trimmed, the empty ones and the
\* ones with an asterisk left out
RECURSIVE KeepNames(_)
KeepNames(parts) ==
    IF parts = <<>> THEN <<>>
    ELSE (IF Strip(Head(parts)) # <<>> /\ ~Contains(Strip(Head(parts)), <<"*">>)
          THEN <<Strip(Head(parts))>> ELSE <<>>) \o KeepNames(Tail(parts))

AttendingNames(names_raw) == KeepNames(Split(names_raw, "\n"))

\* an attending row that replaces the day's record instead of its list
AttendingRowReplacing(shifts, row) ==
    LET cells == Cells(row)
    IN  IF Len(cells) < 4 THEN shifts
        ELSE IF IsNone(PyInt(cells[1])) THEN shifts
        ELSE LET day == Val(PyInt(cells[1]))
             IN  Put(shifts, day,
                     DailyShift(day, cells[2], cells[3], AttendingNames(cells[4])))

\* the body of the loop of _parse_attending_table
AttendingRow(shifts, row) ==
    LET cells == Cells(row)
    IN  IF Len(cells) < 4 THEN shifts
        ELSE IF IsNone(PyInt(cells[1])) THEN shifts
        ELSE LET day == Val(PyInt(cells[1]))
                 names == AttendingNames(cells[4])
             IN  IF day \notin DOMAIN shifts
                 THEN Put(shifts, day, DailyShift(day, cells[2], cells[3], names))
                 ELSE Put(shifts, day, [shifts[day] EXCEPT !.attendings = names])

RECURSIVE parse_attending_table(_, _)
parse_attending_table(shifts, rows) ==
    IF rows = <<>> THEN shifts
    ELSE parse_attending_table(AttendingRow(shifts, Head(rows)), Tail(rows))

\* "cells[k] if len(cells) > k and cells[k] else None", k a Python index
CellOrNone(cells, k) ==
    IF Len(cells) > k /\ cells[k + 1] # <<>> THEN Some(cells[k + 1]) ELSE None

\* the roles a resident row assigns
ResidentRoles(shift, cells) ==
    [shift EXCEPT !.major_shift = CellOrNone(cells, 3),
                  !.minor_shift = CellOrNone(cells, 4),
                  !.tep_cardiologist = CellOrNone(cells, 5),
                  !.anesthesiologist_1 = CellOrNone(cells, 6),
                  !.anesthesiologist_2 = CellOrNone(cells, 7),
                  !.pediatric_cardiologist = CellOrNone(cells, 8)]

\* a resident row that replaces the day's record instead of updating it
ResidentRowReplacing(shifts, row) ==
    LET cells == Cells(row)
    IN  IF Len(cells) < 6 THEN shifts
        ELSE IF IsNone(PyInt(cells[1])) THEN shifts
        ELSE LET day == Val(PyInt(cells[1]))
             IN  Put(shifts, day,
                     ResidentRoles(DailyShift(day, cells[2], cells[3], <<>>), cells))

\* the body of the loop of _parse_resident_table, for a row after row 0
ResidentRow(shifts, row) ==
    LET cells == Cells(row)
    IN  IF Len(cells) < 6 THEN shifts
        ELSE IF IsNone(PyInt(cells[1])) THEN shifts
        ELSE LET day == Val(PyInt(cells[1]))
             IN  IF day \in DOMAIN shifts
                 THEN Put(shifts, day, ResidentRoles(shifts[day], cells))
                 ELSE Put(shifts, day,
                          ResidentRoles(DailyShift(day, cells[2], cells[3], <<>>), cells))

RECURSIVE ResidentRows(_, _)
ResidentRows(shifts, rows) ==
    IF rows = <<>> THEN shifts
    ELSE ResidentRows(ResidentRow(shifts, Head(rows)), Tail(rows))

\* _parse_resident_table without "if i == 0: continue"
parse_resident_table_from_row_0(shifts, rows) == ResidentRows(shifts, rows)

\* row 0 is skipped
parse_resident_table(shifts, rows) ==
    IF rows = <<>> THEN shifts ELSE ResidentRows(shifts, Tail(rows))

\* ShiftParser(docx_path)
NewParser == [month_number |-> None, year |-> None, shifts |-> <<>>]

\* the month_number a failed _extract_month_year leaves: that of the last
\* month name met, None if none was met
RECURSIVE MonthSeen(_)
MonthSeen(paragraphs) ==
    IF paragraphs = <<>> THEN None
    ELSE LET t == Upper(Strip(paragraphs[Len(paragraphs)]))
             months == {i \in DOMAIN GREEK_MONTHS :
                           Contains(t, <<GREEK_MONTHS[i].name>>)}
         IN  IF months = {}
             THEN MonthSeen(SubSeq(paragraphs, 1, Len(paragraphs) - 1))
             ELSE Some(GREEK_MONTHS[CHOOSE i \in months :
                           \A j \in months : j <= i].num)

\* parse, on a new parser: [ok: the value returned, parser: the object after]
parse(doc) ==
    IF ~doc.opens THEN [ok |-> FALSE, parser |-> NewParser]
    ELSE IF IsNone(extract_month_year(doc.paragraphs))
    THEN [ok |-> FALSE,
          parser |-> [NewParser EXCEPT !.month_number = MonthSeen(doc.paragraphs)]]
    ELSE LET my == Val(extract_month_year(doc.paragraphs))
             dated == [month_number |-> Some(my.month), year |-> Some(my.year),
                       shifts |-> <<>>]
         IN  IF Len(doc.tables) < 2 THEN [ok |-> FALSE, parser |-> dated]
             ELSE [ok |-> TRUE,
                   parser |-> [dated EXCEPT !.shifts =
                       parse_resident_table(
                           parse_attending_table(<<>>, doc.tables[1]),
                           doc.tables[2])]]


(***************************************************************************)
(* parse applied to the documents of two tables: an attending table of at  *)
(* most MaxAttRows rows and a resident table of at most MaxResRows rows.   *)
(***************************************************************************)
MaxAttRows == 2
MaxResRows == 3

AttRowSet ==
    { << <<" ", "1">>, <<"OKT">>, <<"TRI">>, <<"A", "\n", "B", "*", "\n", " ", "C", " ">> >>,
      << <<"2">>, <<"OKT">>, <<"TET">>, <<"B">> >>,
      << <<"1">>, <<"OKT">>, <<"TRI">>, <<"*", "D">> >>,
      << <<"0">>, <<"OKT">>, <<"DEU">>, <<"D">> >>,
      << <<"x">>, <<"OKT">>, <<"TRI">>, <<"A">> >>,
      << <<"2">>, <<"OKT">>, <<"TET">> >> }

ResRowSet ==
    { << <<"1">>, <<"OKT">>, <<"TRI">>, <<"R3">>, <<"R4">>, <<"R5">>, <<"R6">>,
         <<"R7">>, <<"R8">> >>,
      << <<"2">>, <<"OKT">>, <<"TET">>, <<"S3">>, <<>>, <<" ">> >>,
      << <<"3">>, <<"OKT">>, <<"PEM">>, <<"T3">>, <<"T4">>, <<"T5">>, <<"T6">> >>,
      << <<"1">>, <<"OKT">>, <<"TRI">>, <<>>, <<"U4">>, <<>>, <<>>, <<"U7">> >>,
      << <<"x">>, <<"OKT">>, <<"TRI">>, <<"R3">>, <<"R4">>, <<"R5">> >>,
      << <<"2">>, <<"OKT">>, <<"TET">>, <<"R3">>, <<"R4">> >> }

GoodParagraphs == << <<"x">>, <<"x", "OKTOBRIOS", "2025">> >>

ParseDocs ==
    {[opens |-> TRUE, paragraphs |-> GoodParagraphs, tables |-> <<a, r>>] :
        a \in SeqsUpTo(AttRowSet, MaxAttRows), r \in SeqsUpTo(ResRowSet, MaxResRows)}

InitParse ==
    /\ pc = "start"
    /\ docx \in ParseDocs
    /\ parser = NewParser
    /\ last = [op |-> "none"]
    /\ cache_file = None
    /\ loaded = None
    /\ edits = 0
    /\ IdleGui
    /\ IdleApp
    /\ IdleRef
    /\ IdleTim
    /\ IdleTok
    /\ IdlePdf
    /\ IdleSch

Parse ==
    /\ pc = "start"
    /\ parser' = parse(docx).parser
    /\ last' = [op |-> "parse", ok |-> parse(docx).ok]
    /\ pc' = "parse"
    /\ UNCHANGED <<docx, cache_file, loaded, edits, guiVars, appVars, refVars, timVars, tokVars, pdfVars, schVars>>

NextParse == Parse

SpecParse == InitParse /\ [][NextParse]_vars

(***************************************************************************)
(* C1.  After a successful parse the days of the set are the integer days  *)
(* read from the attending table and from the resident table; a day of     *)
(* both tables has the attending list of the attending table and the role  *)
(* fields of the resident table; a day of the resident table alone has an  *)
(* empty attending list; a day of the attending table alone has every role *)
(* field unset.                                                            *)
(***************************************************************************)
\* the rows of the attending table that are read for day d: at least 4
\* cells, the first the integer d
AttRowsOf(doc, d) ==
    {i \in DOMAIN doc.tables[1] :
        /\ Len(doc.tables[1][i]) >= 4
        /\ PyInt(doc.tables[1][i][1]) = Some(d)}

\* the rows of the resident table that are read for day d: below row 0, at
\* least 6 cells, the first the integer d
ResRowsOf(doc, d) ==
    {i \in DOMAIN doc.tables[2] :
        /\ i > 1
        /\ Len(doc.tables[2][i]) >= 6
        /\ PyInt(doc.tables[2][i][1]) = Some(d)}

DayRange == -1..40

AttDays(doc) == {d \in DayRange : AttRowsOf(doc, d) # {}}
ResDays(doc) == {d \in DayRange : ResRowsOf(doc, d) # {}}

LastOf(S) == CHOOSE i \in S : \A j \in S : j <= i

\* the text of the cell of Python index k of a row, trimmed; unset when the
\* cell is absent or blank
RoleCell(row, k) ==
    IF k + 1 <= Len(row) /\ Strip(row[k + 1]) # <<>>
    THEN Some(Strip(row[k + 1])) ELSE None

RolesFromResidentTable(doc, d, shift) ==
    LET row == doc.tables[2][LastOf(ResRowsOf(doc, d))]
    IN  /\ shift.major_shift = RoleCell(row, 3)
        /\ shift.minor_shift = RoleCell(row, 4)
        /\ shift.tep_cardiologist = RoleCell(row, 5)
        /\ shift.anesthesiologist_1 = RoleCell(row, 6)
        /\ shift.anesthesiologist_2 = RoleCell(row, 7)
        /\ shift.pediatric_cardiologist = RoleCell(row, 8)

AttendingsFromAttendingTable(doc, d, shift) ==
    shift.attendings =
        AttendingNames(Strip(doc.tables[1][LastOf(AttRowsOf(doc, d))][4]))

C1_MergedDays ==
    (pc = "parse" /\ last.ok) =>
        /\ DOMAIN parser.shifts = AttDays(docx) \cup ResDays(docx)
        /\ \A d \in AttDays(docx) \cap ResDays(docx) :
               /\ AttendingsFromAttendingTable(docx, d, parser.shifts[d])
               /\ RolesFromResidentTable(docx, d, parser.shifts[d])
        /\ \A d \in ResDays(docx) \ AttDays(docx) :
               /\ parser.shifts[d].attendings = <<>>
               /\ RolesFromResidentTable(docx, d, parser.shifts[d])
        /\ \A d \in AttDays(docx) \ ResDays(docx) :
               /\ AttendingsFromAttendingTable(docx, d, parser.shifts[d])
               /\ \A f \in RoleFields : parser.shifts[d][f] = None

\* a day of both tables with attendings and roles, a day of the resident
\* table alone and a day of the attending table alone, in one set
C1_Witness ==
    /\ pc = "parse"
    /\ last.ok
    /\ DOMAIN parser.shifts = {1, 2, 3}
    /\ AttDays(docx) = {1, 2}
    /\ ResDays(docx) = {1, 3}
    /\ parser.shifts[1].attendings = <<<<"A">>, <<"C">>>>
    /\ parser.shifts[1].pediatric_cardiologist = Some(<<"R8">>)
    /\ parser.shifts[3].attendings = <<>>
    /\ parser.shifts[2].major_shift = None


(***************************************************************************)
(* shift_parser.py: update_shift, save_to_json and load_from_json.         *)
(*                                                                         *)
(* A JSON value is <<"null">>, <<"number", n>>, <<"string", text>> or      *)
(* <<"array", values>>; a JSON object is a function of its keys, which are *)
(* texts.  The cache file is None while it does not exist.                 *)
(***************************************************************************)
\* [name.strip() for name in parts if name.strip()], blank parts kept
RECURSIVE StrippedPartsKeepingBlanks(_)
StrippedPartsKeepingBlanks(parts) ==
    IF parts = <<>> THEN <<>>
    ELSE <<Strip(Head(parts))>> \o StrippedPartsKeepingBlanks(Tail(parts))

\* [name.strip() for name in parts if name.strip()]
RECURSIVE StrippedParts(_)
StrippedParts(parts) ==
    IF parts = <<>> THEN <<>>
    ELSE (IF Strip(Head(parts)) # <<>> THEN <<Strip(Head(parts))>> ELSE <<>>)
             \o StrippedParts(Tail(parts))

\* value.strip() if value.strip() else None
StrippedOrNone(value) ==
    IF Strip(value) # <<>> THEN Some(Strip(value)) ELSE None

\* update_shift that assigns the field on the record of every day
update_shift_every_day(p, day, field, value) ==
    IF day \notin DOMAIN p.shifts THEN [ok |-> FALSE, parser |-> p]
    ELSE IF field = "attendings"
    THEN [ok |-> TRUE,
          parser |-> [p EXCEPT !.shifts = [d \in DOMAIN p.shifts |->
              [p.shifts[d] EXCEPT !.attendings = StrippedParts(Split(value, ","))]]]]
    ELSE IF field \in RoleFields
    THEN [ok |-> TRUE,
          parser |-> [p EXCEPT !.shifts = [d \in DOMAIN p.shifts |->
              [p.shifts[d] EXCEPT ![field] = StrippedOrNone(value)]]]]
    ELSE [ok |-> FALSE, parser |-> p]

\* update_shift: [ok: the value returned, parser: the object after]
update_shift(p, day, field, value) ==
    IF day \notin DOMAIN p.shifts THEN [ok |-> FALSE, parser |-> p]
    ELSE IF field = "attendings"
    THEN [ok |-> TRUE,
          parser |-> [p EXCEPT !.shifts[day].attendings =
                                   StrippedParts(Split(value, ","))]]
    ELSE IF field \in RoleFields
    THEN [ok |-> TRUE,
          parser |-> [p EXCEPT !.shifts[day][field] = StrippedOrNone(value)]]
    ELSE [ok |-> FALSE, parser |-> p]

JsonNull == <<"null">>
JsonString(t) == <<"string", t>>
JsonNumber(n) == <<"number", n>>

\* json.dump of an Optional[str] that writes None as the empty string
JsonOptionalBlank(o) == IF IsNone(o) THEN JsonString(<<>>) ELSE JsonString(Val(o))

\* json.dump of an Optional[str]: None is written as null
JsonOptional(o) == IF IsNone(o) THEN JsonNull ELSE JsonString(Val(o))

\* json.dump of an Optional[int]
JsonOptionalInt(o) == IF IsNone(o) THEN JsonNull ELSE JsonNumber(Val(o))

\* json.dump of asdict(shift)
JsonShift(shift) ==
    [day |-> JsonNumber(shift.day),
     month_name |-> JsonString(shift.month_name),
     weekday |-> JsonString(shift.weekday),
     attendings |-> <<"array", [i \in DOMAIN shift.attendings |->
                                    JsonString(shift.attendings[i])]>>,
     major_shift |-> JsonOptional(shift.major_shift),
     minor_shift |-> JsonOptional(shift.minor_shift),
     tep_cardiologist |-> JsonOptional(shift.tep_cardiologist),
     senior_cardiac_surgeon |-> JsonOptional(shift.senior_cardiac_surgeon),
     junior_cardiac_surgeon |-> JsonOptional(shift.junior_cardiac_surgeon),
     anesthesiologist_1 |-> JsonOptional(shift.anesthesiologist_1),
     anesthesiologist_2 |-> JsonOptional(shift.anesthesiologist_2),
     pediatric_cardiologist |-> JsonOptional(shift.pediatric_cardiologist)]

\* save_to_json: the contents of the file written; json.dump writes an
\* integer key of a dict as the string str(key)
save_to_json(p) ==
    [month |-> JsonOptionalInt(p.month_number),
     year |-> JsonOptionalInt(p.year),
     last_update |-> JsonString(<<"now">>),
     shifts |-> [k \in {PyStr(d) : d \in DOMAIN p.shifts} |->
                    JsonShift(p.shifts[CHOOSE d \in DOMAIN p.shifts : PyStr(d) = k])]]

\* json.load of a value: null is None, a string or a number is itself, an
\* array is the list of its values
PyOptional(v) == IF v[1] = "null" THEN None ELSE Some(v[2])

PyList(v) == [i \in DOMAIN v[2] |-> v[2][i][2]]

\* DailyShift(**shift_data)
DailyShiftOf(shift_data) ==
    [day |-> shift_data.day[2],
     month_name |-> shift_data.month_name[2],
     weekday |-> shift_data.weekday[2],
     attendings |-> PyList(shift_data.attendings),
     major_shift |-> PyOptional(shift_data.major_shift),
     minor_shift |-> PyOptional(shift_data.minor_shift),
     tep_cardiologist |-> PyOptional(shift_data.tep_cardiologist),
     senior_cardiac_surgeon |-> PyOptional(shift_data.senior_cardiac_surgeon),
     junior_cardiac_surgeon |-> PyOptional(shift_data.junior_cardiac_surgeon),
     anesthesiologist_1 |-> PyOptional(shift_data.anesthesiologist_1),
     anesthesiologist_2 |-> PyOptional(shift_data.anesthesiologist_2),
     pediatric_cardiologist |-> PyOptional(shift_data.pediatric_cardiologist)]

\* load_from_json: None when the file does not exist, else the parser built
\* from it; a key is turned back into a day by int(), and of two keys of one
\* day the record of the later one would stay
load_from_json(file) ==
    IF IsNone(file) THEN None
    ELSE LET data == Val(file)
         IN  Some([month_number |-> PyOptional(data.month),
                   year |-> PyOptional(data.year),
                   shifts |-> [d \in {Val(PyInt(k)) : k \in DOMAIN data.shifts} |->
                       DailyShiftOf(data.shifts[CHOOSE k \in DOMAIN data.shifts :
                                                    PyInt(k) = Some(d)])]])

(***************************************************************************)
(* A parser's life: parse, then update_shift, save_to_json and             *)
(* load_from_json in any order, with at most MaxEdits updates.             *)
(***************************************************************************)
MaxEdits == 2

ShiftDocs ==
    { [opens |-> TRUE, paragraphs |-> GoodParagraphs,
       tables |-> << << << <<"1">>, <<"OKT">>, <<"TRI">>, <<"A", "\n", "B">> >>,
                        << <<"2">>, <<"OKT">>, <<"TET">>, <<"C">> >> >>,
                     << << <<"x">> >>,
                        << <<"1">>, <<"OKT">>, <<"TRI">>, <<"R3">>, <<>>, <<"R5">> >>,
                        << <<"3">>, <<"OKT">>, <<"PEM">>, <<"T3">>, <<"T4">>, <<"T5">>,
                           <<"T6">>, <<"T7">>, <<"T8">> >> >> >>],
      [opens |-> TRUE, paragraphs |-> GoodParagraphs,
       tables |-> << << << <<"-", "1">>, <<"OKT">>, <<"TRI">>, <<"A">> >>,
                        << <<"1", "0">>, <<"OKT">>, <<"TET">>, <<>> >> >>,
                     << >> >>],
      [opens |-> TRUE, paragraphs |-> GoodParagraphs,
       tables |-> << << << <<"1">>, <<"OKT">>, <<"TRI">>, <<"A">> >> >> >>] }

EditDays == {1, 3, 9}
EditFields == RoleFields \cup {"attendings", "weekday", "notes"}
EditValues == { <<" ", "A", ",", " ", "B", " ", ",", "C">>, <<" ", " ">>, <<>>,
                <<",", " ", "D", " ", ",">> }

InitShift ==
    /\ pc = "start"
    /\ docx \in ShiftDocs
    /\ parser = NewParser
    /\ last = [op |-> "none"]
    /\ cache_file = None
    /\ loaded = None
    /\ edits = 0
    /\ IdleGui
    /\ IdleApp
    /\ IdleRef
    /\ IdleTim
    /\ IdleTok
    /\ IdlePdf
    /\ IdleSch

UpdateShift ==
    /\ pc # "start"
    /\ edits < MaxEdits
    /\ \E day \in EditDays, field \in EditFields, value \in EditValues :
           /\ parser' = update_shift(parser, day, field, value).parser
           /\ last' = [op |-> "update_shift", day |-> day, field |-> field,
                       value |-> value, before |-> parser,
                       ok |-> update_shift(parser, day, field, value).ok]
    /\ edits' = edits + 1
    /\ pc' = "update_shift"
    /\ UNCHANGED <<docx, cache_file, loaded, guiVars, appVars, refVars, timVars, tokVars, pdfVars, schVars>>

SaveToJson ==
    /\ pc # "start"
    /\ cache_file' = Some(save_to_json(parser))
    /\ last' = [op |-> "save_to_json"]
    /\ pc' = "save_to_json"
    /\ UNCHANGED <<docx, parser, loaded, edits, guiVars, appVars, refVars, timVars, tokVars, pdfVars, schVars>>

\* fresh: the parser has not been updated since the file was written
LoadFromJson ==
    /\ pc # "start"
    /\ loaded' = load_from_json(cache_file)
    /\ last' = [op |-> "load_from_json",
                fresh |-> \/ pc = "save_to_json"
                          \/ (pc = "load_from_json" /\ last.fresh)]
    /\ pc' = "load_from_json"
    /\ UNCHANGED <<docx, parser, cache_file, edits, guiVars, appVars, refVars, timVars, tokVars, pdfVars, schVars>>

NextShift == Parse \/ UpdateShift \/ SaveToJson \/ LoadFromJson

SpecShift == InitShift /\ [][NextShift]_vars


(***************************************************************************)
(* C8.  An update of 'attendings' on a day of the set leaves the list of   *)
(* the comma-separated parts of the value, each trimmed, the empty ones    *)
(* removed, in order; an update of a role field leaves the value trimmed,  *)
(* or the field unset when the trimmed value is empty.                     *)
(***************************************************************************)
\* the positions of the comma-separated parts that are not blank
NonBlankParts(value) ==
    {i \in DOMAIN Split(value, ",") : Strip(Split(value, ",")[i]) # <<>>}

\* the k-th smallest member of a set of positions
Kth(S, k) == CHOOSE i \in S : Cardinality({j \in S : j <= i}) = k

IsTrimmedPartsOf(list, value) ==
    /\ Len(list) = Cardinality(NonBlankParts(value))
    /\ \A k \in DOMAIN list :
           list[k] = Strip(Split(value, ",")[Kth(NonBlankParts(value), k)])
    /\ \A k \in DOMAIN list : list[k] # <<>>

C8_UpdateStoresTrimmed ==
    (pc = "update_shift" /\ last.day \in DOMAIN last.before.shifts) =>
        /\ last.field = "attendings" =>
               /\ IsTrimmedPartsOf(parser.shifts[last.day].attendings, last.value)
               /\ last.value = <<" ", "A", ",", " ", "B", " ", ",", "C">> =>
                      parser.shifts[last.day].attendings = << <<"A">>, <<"B">>, <<"C">> >>
        /\ last.field \in RoleFields =>
               /\ parser.shifts[last.day][last.field] =
                      (IF Strip(last.value) = <<>> THEN None
                       ELSE Some(Strip(last.value)))
               /\ parser.shifts[last.day][last.field] # Some(<<>>)

\* an attendings update whose value has blank parts around a name
C8_Witness ==
    /\ pc = "update_shift"
    /\ last.day \in DOMAIN last.before.shifts
    /\ last.field = "attendings"
    /\ last.value = <<",", " ", "D", " ", ",">>
    /\ last.before.shifts[last.day].attendings # << <<"D">> >>
    /\ parser.shifts[last.day].attendings = << <<"D">> >>

(***************************************************************************)
(* C9.  update_shift fails and changes nothing when the day is not in the  *)
(* set or the field is not one of the 9 recognized ones; when it succeeds  *)
(* only that field of that day changes: every other field, every other     *)
(* day, the month and the year stay.                                       *)
(***************************************************************************)
RecognizedFields == RoleFields \cup {"attendings"}

C9_UpdateFrame ==
    pc = "update_shift" =>
        /\ last.ok <=> (last.day \in DOMAIN last.before.shifts
                            /\ last.field \in RecognizedFields)
        /\ ~last.ok => parser = last.before
        /\ last.ok =>
               /\ parser.month_number = last.before.month_number
               /\ parser.year = last.before.year
               /\ DOMAIN parser.shifts = DOMAIN last.before.shifts
               /\ \A d \in DOMAIN parser.shifts :
                      /\ DOMAIN parser.shifts[d] = DOMAIN last.before.shifts[d]
                      /\ \A f \in DOMAIN parser.shifts[d] :
                             (d # last.day \/ f # last.field) =>
                                 parser.shifts[d][f] = last.before.shifts[d][f]

\* a successful update that changed a field of one of several days
C9_Witness ==
    /\ pc = "update_shift"
    /\ last.ok
    /\ Cardinality(DOMAIN parser.shifts) >= 3
    /\ last.field = "minor_shift"
    /\ parser.shifts[last.day].minor_shift # last.before.shifts[last.day].minor_shift

(***************************************************************************)
(* C10.  save_to_json then load_from_json, on a parser that was parsed and *)
(* updated, gives back the month, the year and the mapping of days to      *)
(* records; an unset field is null in the file and unset after the load.   *)
(***************************************************************************)
C10_JsonRoundTrip ==
    (pc = "load_from_json" /\ last.fresh) =>
        /\ ~IsNone(loaded)
        /\ Val(loaded).month_number = parser.month_number
        /\ Val(loaded).year = parser.year
        /\ DOMAIN Val(loaded).shifts = DOMAIN parser.shifts
        /\ \A d \in DOMAIN parser.shifts :
               /\ Val(loaded).shifts[d] = parser.shifts[d]
               /\ \A f \in RoleFields :
                      parser.shifts[d][f] = None =>
                          /\ Val(cache_file).shifts[PyStr(d)][f] = <<"null">>
                          /\ Val(loaded).shifts[d][f] = None

\* a reload of a parser of three days, updated, with set and unset roles
C10_Witness ==
    /\ pc = "load_from_json"
    /\ last.fresh
    /\ edits >= 1
    /\ ~IsNone(loaded)
    /\ DOMAIN Val(loaded).shifts = {1, 2, 3}
    /\ Val(loaded).shifts[1].attendings = << <<"A">>, <<"B">>, <<"C">> >>
    /\ Val(loaded).shifts[1].minor_shift = None
    /\ Val(loaded).shifts[1].major_shift = Some(<<"R3">>)
    /\ Val(loaded).shifts[3].attendings = <<>>


(***************************************************************************)
(* cardiology_display.py: load_shift_file.                                 *)
(***************************************************************************)
\* validate_month_year
validate_month_year(p, expected_month, expected_year) ==
    p.month_number = Some(expected_month) /\ p.year = Some(expected_year)

\* load_shift_file from the point where parse has returned r: the
\* application's shift set and the cache file after it, parsed (what parse
\* returned) and the message box shown at the end
load_shift_file_parsed(r, reply, now, app_parser, file) ==
    IF ~r.ok
    THEN [shift_parser |-> app_parser, cache_file |-> file,
          parsed |-> Some(FALSE), shown |-> "showerror"]
    ELSE IF ~validate_month_year(r.parser, now.month, now.year) /\ ~reply
    THEN [shift_parser |-> app_parser, cache_file |-> file,
          parsed |-> Some(TRUE), shown |-> "none"]
    ELSE [shift_parser |-> Some(r.parser),
          cache_file |-> Some(save_to_json(r.parser)),
          parsed |-> Some(TRUE), shown |-> "showinfo"]

\* load_shift_file: parsed is None when no file was picked
load_shift_file(filepath, reply, now, app_parser, file) ==
    IF IsNone(filepath)
    THEN [shift_parser |-> app_parser, cache_file |-> file,
          parsed |-> None, shown |-> "none"]
    ELSE load_shift_file_parsed(parse(Val(filepath)), reply, now, app_parser, file)

MaxParagraphs == 2
MaxTables == 3

ParagraphTexts ==
    { <<"x">>, <<"OKTOBRIOS">>, <<"2025">>, <<"x", "OKTOBRIOS", " ", "2025">>,
      <<"oktobrios", " ", "2025", " ">>, <<"NOEMBRIOU", " ", "x", "2026">> }

AttendingTable ==
    << << <<"1">>, <<"OKT">>, <<"TRI">>, <<"A">> >>,
       << <<"2">>, <<"OKT">>, <<"TET">>, <<"B">> >> >>

ResidentTable ==
    << << <<"x">> >>,
       << <<"2">>, <<"OKT">>, <<"TET">>, <<"R3">>, <<"R4">>, <<"R5">> >> >>

PickedDocs ==
    {[opens |-> o, paragraphs |-> p,
      tables |-> [i \in 1..n |-> IF i = 1 THEN AttendingTable ELSE ResidentTable]] :
        o \in BOOLEAN, p \in SeqsUpTo(ParagraphTexts, MaxParagraphs), n \in 0..MaxTables}

\* the shift set of an earlier load, and the cache file it left
EarlierParser ==
    [month_number |-> Some(10), year |-> Some(2025),
     shifts |-> parse_attending_table(<<>>, AttendingTable)]

InitGui ==
    /\ pc = "start"
    /\ chosen \in {None} \cup {Some(d) : d \in PickedDocs}
    /\ answer \in BOOLEAN
    /\ today \in {[month |-> 10, year |-> 2025], [month |-> 11, year |-> 2025]}
    /\ cache_file \in {None, Some(save_to_json(EarlierParser))}
    /\ shift_parser \in {None} \cup
           (IF IsNone(cache_file) THEN {} ELSE {Some(EarlierParser)})
    /\ docx = [opens |-> FALSE, paragraphs |-> <<>>, tables |-> <<>>]
    /\ parser = NewParser
    /\ last = [op |-> "none"]
    /\ loaded = None
    /\ edits = 0
    /\ IdleApp
    /\ IdleRef
    /\ IdleTim
    /\ IdleTok
    /\ IdlePdf
    /\ IdleSch

LoadShiftFile ==
    /\ pc = "start"
    /\ LET r == load_shift_file(chosen, answer, today, shift_parser, cache_file)
       IN  /\ shift_parser' = r.shift_parser
           /\ cache_file' = r.cache_file
           /\ last' = [op |-> "load_shift_file", parsed |-> r.parsed,
                       shown |-> r.shown,
                       before |-> [shift_parser |-> shift_parser,
                                   cache_file |-> cache_file]]
    /\ pc' = "load_shift_file"
    /\ UNCHANGED <<chosen, answer, today, docx, parser, loaded, edits,
                   appVars, refVars, timVars, tokVars, pdfVars, schVars>>

NextGui == LoadShiftFile

SpecGui == InitGui /\ [][NextGui]_vars

(***************************************************************************)
(* C7.  parse fails exactly when the document cannot be opened, or no      *)
(* paragraph holds a month name with a year, or there are fewer than 2     *)
(* tables; on a failure load_shift_file leaves the application's shift set *)
(* and the cache file as they were.                                        *)
(***************************************************************************)
\* a paragraph with a month name and a year in it
YieldsMarker(para) ==
    /\ \E m \in DOMAIN GREEK_MONTHS : Contains(Upper(para), <<GREEK_MONTHS[m].name>>)
    /\ \E i \in DOMAIN para : para[i] \in YearWords

ParseMustFail(doc) ==
    \/ ~doc.opens
    \/ \A i \in DOMAIN doc.paragraphs : ~YieldsMarker(doc.paragraphs[i])
    \/ Len(doc.tables) < 2

C7_ParseFailureAborts ==
    (pc = "load_shift_file" /\ ~IsNone(chosen)) =>
        /\ last.parsed = Some(FALSE) <=> ParseMustFail(Val(chosen))
        /\ last.parsed = Some(FALSE) =>
               /\ shift_parser = last.before.shift_parser
               /\ cache_file = last.before.cache_file

\* a document that opens, with two tables, the month in one paragraph and
\* the year in another: the load aborts on an application that had a set
C7_Witness ==
    /\ pc = "load_shift_file"
    /\ ~IsNone(chosen)
    /\ Val(chosen).opens
    /\ Len(Val(chosen).tables) >= 2
    /\ Val(chosen).paragraphs = << <<"OKTOBRIOS">>, <<"2025">> >>
    /\ last.parsed = Some(FALSE)
    /\ last.shown = "showerror"
    /\ shift_parser = Some(EarlierParser)
    /\ cache_file = Some(save_to_json(EarlierParser))


(***************************************************************************)
(* shift_parser.py: the lookups get_shift_for_day, get_shift_for_date and  *)
(* validate_month_year, on a parser after parse.  A date is a record       *)
(* [day, month, year].                                                     *)
(***************************************************************************)
\* get_shift_for_day: self.shifts.get(day)
get_shift_for_day(p, day) ==
    IF day \in DOMAIN p.shifts THEN Some(p.shifts[day]) ELSE None

\* a lookup by date that looks at the day number alone
get_shift_for_date_by_day(p, d) == get_shift_for_day(p, d.day)

\* get_shift_for_date
get_shift_for_date(p, d) ==
    IF Some(d.month) # p.month_number \/ Some(d.year) # p.year THEN None
    ELSE get_shift_for_day(p, d.day)

LookupParagraphs ==
    { GoodParagraphs, << <<"NOEMBRIOU", " ", "2026">> >>,
      << <<"OKTOBRIOU", " ", "2026">> >>, << <<"OKTOBRIOS">> >>, << >> }

LookupTables ==
    { << AttendingTable, ResidentTable >>,
      << << << <<"3">>, <<"OKT">>, <<"PEM">>, <<"A">> >> >>, << >> >>,
      << AttendingTable >> }

LookupDocs ==
    {[opens |-> TRUE, paragraphs |-> p, tables |-> t] :
        p \in LookupParagraphs, t \in LookupTables}

LookupDates ==
    {[day |-> d, month |-> m, year |-> y] :
        d \in {1, 2, 3, 9}, m \in {10, 11}, y \in {2025, 2026}}

InitLookup ==
    /\ pc = "start"
    /\ docx \in LookupDocs
    /\ parser = NewParser
    /\ last = [op |-> "none"]
    /\ cache_file = None
    /\ loaded = None
    /\ edits = 0
    /\ IdleGui
    /\ IdleApp
    /\ IdleRef
    /\ IdleTim
    /\ IdleTok
    /\ IdlePdf
    /\ IdleSch

GetShiftForDate ==
    /\ pc = "parse"
    /\ \E d \in LookupDates :
           last' = [op |-> "get_shift_for_date", date |-> d,
                    result |-> get_shift_for_date(parser, d)]
    /\ pc' = "get_shift_for_date"
    /\ UNCHANGED <<docx, parser, cache_file, loaded, edits, guiVars, appVars, refVars, timVars,
                   tokVars, pdfVars, schVars>>

ValidateMonthYear ==
    /\ pc = "parse"
    /\ \E m \in {10, 11}, y \in {2025, 2026} :
           last' = [op |-> "validate_month_year", month |-> m, year |-> y,
                    result |-> validate_month_year(parser, m, y)]
    /\ pc' = "validate_month_year"
    /\ UNCHANGED <<docx, parser, cache_file, loaded, edits, guiVars, appVars, refVars, timVars,
                   tokVars, pdfVars, schVars>>

NextLookup == Parse \/ GetShiftForDate \/ ValidateMonthYear

SpecLookup == InitLookup /\ [][NextLookup]_vars

(***************************************************************************)
(* C11.  validate_month_year(m, y) is true exactly when the set is for     *)
(* month m of year y; get_shift_for_date(d) is None when the set is for    *)
(* another month or year than d's, whatever days it holds, and otherwise   *)
(* the record under d's day, None if there is none.                        *)
(***************************************************************************)
SetIsFor(p, m, y) ==
    /\ ~IsNone(p.month_number)
    /\ ~IsNone(p.year)
    /\ Val(p.month_number) = m
    /\ Val(p.year) = y

C11_Lookups ==
    /\ pc = "validate_month_year" =>
           (last.result <=> SetIsFor(parser, last.month, last.year))
    /\ pc = "get_shift_for_date" =>
           /\ ~SetIsFor(parser, last.date.month, last.date.year) =>
                  last.result = None
           /\ SetIsFor(parser, last.date.month, last.date.year) =>
                  /\ last.date.day \in DOMAIN parser.shifts =>
                         last.result = Some(parser.shifts[last.date.day])
                  /\ last.date.day \notin DOMAIN parser.shifts =>
                         last.result = None

\* a lookup of a day the set holds, for the same month of another year
C11_Witness ==
    /\ pc = "get_shift_for_date"
    /\ last.date.day \in DOMAIN parser.shifts
    /\ parser.month_number = Some(last.date.month)
    /\ ~IsNone(parser.year)
    /\ parser.year # Some(last.date.year)
    /\ last.result = None


(***************************************************************************)
(* cardiology_display.py: the shift handlers of the application, over its  *)
(* life: start-up, the prompt, the load of a document, date selection, the *)
(* edit dialog, the daily refresh and the exit.  pc is "off" while the     *)
(* application is not running, "idle" while no handler runs and no dialog  *)
(* is open, "editing" while the edit dialog is open.  A write of the cache *)
(* file either succeeds or raises on open(), leaving the file as it was.   *)
(***************************************************************************)
\* update_shift_display: the new current_shift
update_shift_display(app_parser, shown, date) ==
    IF IsNone(app_parser) THEN shown
    ELSE get_shift_for_date(Val(app_parser), date)

\* a start-up that installs whatever set the cache file holds
load_or_prompt_shift_file_unchecked(file, now) ==
    IF ~IsNone(load_from_json(file))
    THEN [shift_parser |-> load_from_json(file), prompted |-> FALSE]
    ELSE [shift_parser |-> None, prompted |-> TRUE]

\* load_or_prompt_shift_file, on a new application: the set installed and
\* whether prompt_for_shift_file is scheduled
load_or_prompt_shift_file(file, now) ==
    IF ~IsNone(load_from_json(file))
       /\ validate_month_year(Val(load_from_json(file)), now.month, now.year)
    THEN [shift_parser |-> load_from_json(file), prompted |-> FALSE]
    ELSE [shift_parser |-> None, prompted |-> TRUE]

\* the fields of the edit dialog, in the order save_changes writes them
FormFields ==
    << "attendings", "major_shift", "minor_shift", "tep_cardiologist",
       "senior_cardiac_surgeon", "junior_cardiac_surgeon", "anesthesiologist_1",
       "anesthesiologist_2", "pediatric_cardiologist" >>

\* the first k update_shift calls of save_changes
RECURSIVE UpdatesOf(_, _, _, _)
UpdatesOf(p, day, form, k) ==
    IF k = 0 THEN p
    ELSE update_shift(UpdatesOf(p, day, form, k - 1), day, FormFields[k],
                      form[FormFields[k]]).parser

\* save_changes: the set and the cache file after it; done is whether the
\* handler reached dialog.destroy()
save_changes(p, date, form, file, write_ok) ==
    LET q == UpdatesOf(p, date.day, form, Len(FormFields))
    IN  IF write_ok
        THEN [parser |-> q, cache_file |-> Some(save_to_json(q)), done |-> TRUE]
        ELSE [parser |-> q, cache_file |-> file, done |-> FALSE]

OctoberTables ==
    << << << <<"1">>, <<"OKT">>, <<"TET">>, <<"A">> >>,
          << <<"2">>, <<"OKT">>, <<"PEM">>, <<"B">> >> >>,
       << << <<"x">> >>,
          << <<"2">>, <<"OKT">>, <<"PEM">>, <<"R3">>, <<>>, <<"R5">> >> >> >>

NovemberTables ==
    << << << <<"2">>, <<"NOE">>, <<"KYR">>, <<"C">> >> >>,
       << << <<"x">> >>,
          << <<"3">>, <<"NOE">>, <<"DEU">>, <<"S3">>, <<"S4">>, <<"S5">> >> >> >>

AppDocs ==
    { [opens |-> TRUE, paragraphs |-> << <<"OKTOBRIOS", " ", "2025">> >>,
       tables |-> OctoberTables],
      [opens |-> TRUE, paragraphs |-> << <<"NOEMBRIOS", " ", "2025">> >>,
       tables |-> NovemberTables],
      [opens |-> TRUE, paragraphs |-> << <<"NOEMBRIOS", " ", "2025">> >>,
       tables |-> << >>] }

\* what parse returns for each document
ParsedAppDocs == [d \in AppDocs |-> parse(d)]

AppDates ==
    { [day |-> 1, month |-> 10, year |-> 2025], [day |-> 2, month |-> 10, year |-> 2025],
      [day |-> 2, month |-> 11, year |-> 2025], [day |-> 3, month |-> 11, year |-> 2025] }

Todays ==
    { [day |-> 2, month |-> 10, year |-> 2025], [day |-> 2, month |-> 11, year |-> 2025] }

Forms ==
    { [f \in {FormFields[i] : i \in DOMAIN FormFields} |->
          IF f = "attendings" THEN <<"A", ",", " ", "D">>
          ELSE IF f = "major_shift" THEN <<" ", "M">> ELSE <<>>],
      [f \in {FormFields[i] : i \in DOMAIN FormFields} |->
          IF f = "pediatric_cardiologist" THEN <<"P">> ELSE <<>>] }

InitApp ==
    /\ pc = "off"
    /\ today \in Todays
    /\ cache_file \in {None} \cup {Some(save_to_json(ParsedAppDocs[d].parser)) :
                                      d \in {d \in AppDocs : ParsedAppDocs[d].ok}}
    /\ shift_parser = None
    /\ selected_date = today
    /\ current_shift = None
    /\ prompted = FALSE
    /\ confirmed = FALSE
    /\ dialog_day = <<>>
    /\ IdleRef
    /\ IdleTim
    /\ last = [op |-> "none"]
    /\ chosen = None
    /\ answer = FALSE
    /\ docx = [opens |-> FALSE, paragraphs |-> <<>>, tables |-> <<>>]
    /\ parser = NewParser
    /\ loaded = None
    /\ edits = 0
    /\ IdleTok
    /\ IdlePdf
    /\ IdleSch

appFrame == <<chosen, answer, docx, parser, loaded, edits, refVars, timVars, tokVars, pdfVars,
              schVars>>

\* __init__: the date is today's, load_or_prompt_shift_file, refresh_data
Start ==
    /\ pc = "off"
    /\ selected_date' = today
    /\ shift_parser' = load_or_prompt_shift_file(cache_file, today).shift_parser
    /\ prompted' = load_or_prompt_shift_file(cache_file, today).prompted
    /\ current_shift' = update_shift_display(shift_parser', None, today)
    /\ last' = [op |-> "start"]
    /\ pc' = "idle"
    /\ UNCHANGED <<today, cache_file, confirmed, dialog_day, appFrame>>

\* the window is closed: the process ends, the cache file stays
Quit ==
    /\ pc \in {"idle", "editing"}
    /\ shift_parser' = None
    /\ current_shift' = None
    /\ prompted' = FALSE
    /\ dialog_day' = None
    /\ last' = [op |-> "quit"]
    /\ pc' = "off"
    /\ UNCHANGED <<today, selected_date, cache_file, confirmed, appFrame>>

\* load_shift_file with a document picked, the reply to the warning and
\* whether the cache file can be written
LoadFile(doc, reply, write_ok) ==
    LET r == load_shift_file_parsed(ParsedAppDocs[doc], reply, today,
                                    shift_parser, cache_file)
        installs == r.shown = "showinfo"
    IN  /\ shift_parser' = IF installs /\ ~write_ok THEN shift_parser
                           ELSE r.shift_parser
        /\ cache_file' = IF installs /\ ~write_ok THEN cache_file ELSE r.cache_file
        /\ current_shift' =
               IF installs /\ write_ok
               THEN update_shift_display(shift_parser', current_shift, selected_date)
               ELSE current_shift
        /\ confirmed' = IF installs /\ write_ok
                         THEN ~validate_month_year(ParsedAppDocs[doc].parser,
                                                   today.month, today.year)
                         ELSE confirmed
        /\ last' = [op |-> "load_shift_file", parsed |-> r.parsed,
                    set |-> ParsedAppDocs[doc].parser,
                    mismatch |-> /\ r.parsed = Some(TRUE)
                                 /\ ~validate_month_year(ParsedAppDocs[doc].parser,
                                                         today.month, today.year),
                    reply |-> reply, write_ok |-> write_ok,
                    before |-> [shift_parser |-> shift_parser,
                                cache_file |-> cache_file]]

\* the "load file" button
LoadButton ==
    /\ pc = "idle"
    /\ \E doc \in AppDocs, reply \in BOOLEAN, write_ok \in BOOLEAN :
           LoadFile(doc, reply, write_ok)
    /\ UNCHANGED <<pc, today, selected_date, prompted, dialog_day, appFrame>>

\* prompt_for_shift_file, one second after a start-up without a set
PromptForShiftFile ==
    /\ pc = "idle"
    /\ prompted
    /\ prompted' = FALSE
    /\ \/ \E doc \in AppDocs, reply \in BOOLEAN, write_ok \in BOOLEAN :
              LoadFile(doc, reply, write_ok)
       \/ /\ last' = [op |-> "prompt_for_shift_file"]
          /\ UNCHANGED <<shift_parser, cache_file, current_shift, confirmed>>
    /\ UNCHANGED <<pc, today, selected_date, dialog_day, appFrame>>

\* select_date of the calendar, select_today: the date, then refresh_data
SelectDate ==
    /\ pc = "idle"
    /\ \E d \in AppDates \cup {today} :
           /\ selected_date' = d
           /\ current_shift' = update_shift_display(shift_parser, current_shift, d)
    /\ last' = [op |-> "select_date"]
    /\ UNCHANGED <<pc, today, shift_parser, cache_file, prompted, confirmed, dialog_day, appFrame>>

\* edit_shifts: the dialog opens when there is a set and a record shown
EditShifts ==
    /\ pc = "idle"
    /\ ~IsNone(shift_parser)
    /\ ~IsNone(current_shift)
    /\ dialog_day' = Some(Val(current_shift).day)
    /\ last' = [op |-> "edit_shifts"]
    /\ pc' = "editing"
    /\ UNCHANGED <<today, shift_parser, cache_file, selected_date, current_shift,
                   prompted, confirmed, appFrame>>

\* save_changes of the dialog; when the write raises the dialog stays open
SaveChanges ==
    /\ pc = "editing"
    /\ \E form \in Forms, write_ok \in BOOLEAN :
           LET r == save_changes(Val(shift_parser), selected_date, form,
                                 cache_file, write_ok)
           IN  /\ shift_parser' = Some(r.parser)
               /\ cache_file' = r.cache_file
               /\ current_shift' = get_shift_for_date(r.parser, selected_date)
               /\ pc' = IF r.done THEN "idle" ELSE "editing"
               /\ dialog_day' = IF r.done THEN None ELSE dialog_day
               /\ last' = [op |-> "save_changes", write_ok |-> write_ok,
                           dialog_day |-> dialog_day,
                           before |-> Val(shift_parser)]
    /\ UNCHANGED <<today, selected_date, prompted, confirmed, appFrame>>

\* the Cancel button of the dialog
CancelEdit ==
    /\ pc = "editing"
    /\ dialog_day' = None
    /\ last' = [op |-> "cancel"]
    /\ pc' = "idle"
    /\ UNCHANGED <<today, shift_parser, cache_file, selected_date, current_shift,
                   prompted, confirmed, appFrame>>

\* auto_refresh, when its timer fires: also while the dialog is open
AutoRefresh ==
    /\ pc \in {"idle", "editing"}
    /\ selected_date' = today
    /\ current_shift' = update_shift_display(shift_parser, current_shift, today)
    /\ last' = [op |-> "auto_refresh"]
    /\ UNCHANGED <<pc, today, shift_parser, cache_file, prompted, confirmed, dialog_day, appFrame>>

NextApp ==
    \/ Start
    \/ Quit
    \/ LoadButton
    \/ PromptForShiftFile
    \/ SelectDate
    \/ EditShifts
    \/ SaveChanges
    \/ CancelEdit
    \/ AutoRefresh

SpecApp == InitApp /\ [][NextApp]_vars

(***************************************************************************)
(* C12.  Whenever the application is idle with a shift set installed, the  *)
(* cache file holds exactly that set, also after a save that failed to     *)
(* write.                                                                  *)
(***************************************************************************)
C12_CacheHoldsInstalledSet ==
    (pc = "idle" /\ ~IsNone(shift_parser)) =>
        load_from_json(cache_file) = shift_parser


(***************************************************************************)
(* C17.  At start-up the cached set is installed only when it is for       *)
(* today's month and year; a cached set for another month or year is not   *)
(* installed and the prompt is scheduled, also when it has a record for    *)
(* today's day number.                                                     *)
(***************************************************************************)
C17_StartInstallsOnlyThisMonth ==
    (pc = "idle" /\ last.op = "start") =>
        /\ ~IsNone(shift_parser) =>
               /\ shift_parser = load_from_json(cache_file)
               /\ SetIsFor(Val(shift_parser), today.month, today.year)
        /\ (~IsNone(cache_file)
                /\ ~SetIsFor(Val(load_from_json(cache_file)), today.month, today.year)) =>
               /\ IsNone(shift_parser)
               /\ prompted

\* a cache for October with a record for day 2, on the 2nd of November
C17_Witness ==
    /\ pc = "idle"
    /\ last.op = "start"
    /\ today = [day |-> 2, month |-> 11, year |-> 2025]
    /\ ~IsNone(cache_file)
    /\ Val(load_from_json(cache_file)).month_number = Some(10)
    /\ 2 \in DOMAIN Val(load_from_json(cache_file)).shifts
    /\ IsNone(shift_parser)
    /\ prompted


(***************************************************************************)
(* C18.  A parsed document for another month or year than today's is       *)
(* installed and written to the cache exactly when the user confirms; when *)
(* the user declines, the set and the cache stay; and a set accepted this  *)
(* way stays the application's set afterwards.                             *)
(***************************************************************************)
C18_ConfirmedSetStaysTrusted ==
    /\ (pc = "idle" /\ last.op = "load_shift_file" /\ last.mismatch) =>
           /\ (last.reply /\ last.write_ok) =>
                  /\ shift_parser = Some(last.set)
                  /\ load_from_json(cache_file) = Some(last.set)
           /\ ~last.reply =>
                  /\ shift_parser = last.before.shift_parser
                  /\ cache_file = last.before.cache_file
    /\ (pc \in {"idle", "editing"} /\ confirmed) =>
           ~IsNone(shift_parser)


(***************************************************************************)
(* cardiology_display.py: refresh_data, extract_specialties,               *)
(* filter_by_specialty, on_specialty_changed and load_from_cache; and      *)
(* athens_hospitals.py: fetch_hospital_data.                               *)
(*                                                                         *)
(* A specialty is a text of one symbol: "Kardiologia / Cardiology" is a    *)
(* bilingual label whose Greek part is "Kardiologia"; "Other" and          *)
(* "Pathologia" are labels without an English part, and "Kardiologia       *)
(* Paidon" is a label of the source document that SPECIALTY_NAMES does not *)
(* register and that begins with "Kardiologia".  The snapshot file is      *)
(* [ok, hospitals]: ok is whether json.load accepts it, hospitals the list *)
(* of its entries, each a function of the keys it has.                     *)
(***************************************************************************)
\* the first option of the combobox, "all specialties"
AllSpecialties == <<"Oles">>

\* hospital.specialty.split(" / ")[0].strip()
GreekPart(specialty) ==
    IF specialty = <<"Kardiologia / Cardiology">> THEN <<"Kardiologia">>
    ELSE IF specialty = <<"Traumatologia / Trauma">> THEN <<"Traumatologia">>
    ELSE Strip(specialty)

\* the order of sorted() on the Greek parts that occur
SpecialtyOrder ==
    << <<>>, <<"Kardiologia">>, <<"Kardiologia Paidon">>, <<"Other">>, <<"Pathologia">>,
       <<"Traumatologia">> >>

\* sorted(list(specialty_set))
SortedSpecialties(specialty_set) ==
    LET Occurs(x) == x \in specialty_set
    IN  SelectSeq(SpecialtyOrder, Occurs)

\* "kardiolog" in s.lower()
IsCardiology(s) == Contains(s, <<"Kardiologia">>) \/ Contains(s, <<"Kardiologia Paidon">>)

\* extract_specialties: the values of the combobox and the specialty selected
extract_specialties(all, selected) ==
    LET available == <<AllSpecialties>> \o
            SortedSpecialties({GreekPart(all[i].specialty) : i \in DOMAIN all})
        cardiology_options == SelectSeq(available, IsCardiology)
    IN  [available |-> available,
         selected |-> IF cardiology_options # <<>> THEN cardiology_options[1]
                      ELSE IF Len(available) > 1 THEN available[2]
                      ELSE selected]

\* h.specialty.startswith(selected)
SpecialtyStartsWith(specialty, selected) ==
    \/ selected = <<>>
    \/ selected = specialty
    \/ selected = GreekPart(specialty)
    \/ (selected = <<"Kardiologia">> /\ specialty = <<"Kardiologia Paidon">>)

\* filter_by_specialty: the new filtered_hospitals
filter_by_specialty(all, selected) ==
    IF selected = AllSpecialties THEN all
    ELSE LET Shown(h) == SpecialtyStartsWith(h.specialty, selected)
         IN  SelectSeq(all, Shown)

\* h_data.get(key, '')
Get(h_data, key, default) == IF key \in DOMAIN h_data THEN h_data[key] ELSE default

\* the Hospital built from an entry of the snapshot
HospitalOfData(h_data) ==
    Hospital(Get(h_data, "name", <<>>), Get(h_data, "specialty", <<>>),
             Get(h_data, "time_slot", ""), Get(h_data, "on_duty_date", ""))

\* load_from_cache, on the store st = [all, filtered, available, selected]
load_from_cache(file, st) ==
    IF IsNone(file) THEN st
    ELSE IF ~Val(file).ok THEN [st EXCEPT !.all = <<>>, !.filtered = <<>>]
    ELSE LET all == [i \in DOMAIN Val(file).hospitals |->
                        HospitalOfData(Val(file).hospitals[i])]
             e == extract_specialties(all, st.selected)
         IN  [all |-> all, filtered |-> filter_by_specialty(all, e.selected),
              available |-> e.available, selected |-> e.selected]

\* refresh_data, on the store st: the scraper returns a list whatever the
\* source does; raises is whether the update of the combobox in
\* extract_specialties raises, which is what takes the except branch
refresh_data(st, s, ok, date, file, raises) ==
    LET all == get_schedule_for_date(s, ok, date).out
        e == extract_specialties(all, st.selected)
    IN  IF ~raises
        THEN [all |-> all, filtered |-> filter_by_specialty(all, e.selected),
              available |-> e.available, selected |-> e.selected]
        ELSE load_from_cache(file, [st EXCEPT !.all = all, !.available = e.available])

\* _get_sample_data: two of its 9 entries
get_sample_data(now) ==
    << Hospital(<<"Ippokrateio">>, <<"Kardiologia / Cardiology">>, "", isoformat(now)),
       Hospital(<<"Kat">>, <<"Traumatologia / Trauma">>, "", isoformat(now)) >>

\* fetch_hospital_data: get_today_schedule when it is not empty, else the
\* sample data
fetch_hospital_data(s, ok, now) ==
    IF get_schedule_for_date(s, ok, now).out # <<>>
    THEN get_schedule_for_date(s, ok, now).out
    ELSE get_sample_data(now)


(***************************************************************************)
(* The application after construction, refreshed any number of times, with *)
(* the specialty changed by the user in between, and the service updated;  *)
(* the source (the listing of at most MaxListed links, whether downloads   *)
(* succeed) and the snapshot file stay as they are.                        *)
(***************************************************************************)
MaxListed == 1

RefreshSites ==
    {[ok |-> o, links |-> ls] : o \in BOOLEAN, ls \in SeqsUpTo(LinkSet, MaxListed)}

RefreshDates ==
    { [day |-> 14, month |-> 10, year |-> 2025], [day |-> 4, month |-> 10, year |-> 2025] }

Snapshots ==
    { None,
      Some([ok |-> FALSE, hospitals |-> <<>>]),
      Some([ok |-> TRUE,
            hospitals |->
                << [name |-> <<"Kat">>, specialty |-> <<"Pathologia">>,
                    time_slot |-> "08:00-14:30", on_duty_date |-> "2025-10-13"],
                   [name |-> <<"Elpis">>, specialty |-> <<"Kardiologia / Cardiology">>,
                    on_duty_date |-> "2025-10-13"] >>]) }

Store ==
    [all |-> all_hospitals, filtered |-> filtered_hospitals,
     available |-> available_specialties, selected |-> selected_specialty]

InitRefresh ==
    /\ pc = "start"
    /\ site \in RefreshSites
    /\ served \in BOOLEAN
    /\ today \in RefreshDates
    /\ selected_date = today
    /\ hospitals_cache \in Snapshots
    /\ shift_parser \in {None, Some(EarlierParser)}
    /\ current_shift = None
    /\ all_hospitals = <<>>
    /\ filtered_hospitals = <<>>
    /\ selected_specialty = <<"Kardiologia">>
    /\ available_specialties = <<>>
    /\ service_hospitals = <<>>
    /\ last = [op |-> "none"]
    /\ target_date = [day |-> 1, month |-> 1, year |-> 2025]
    /\ schedule = <<>>
    /\ requests = <<>>
    /\ chosen = None
    /\ answer = FALSE
    /\ prompted = FALSE
    /\ confirmed = FALSE
    /\ dialog_day = <<>>
    /\ cache_file = None
    /\ docx = [opens |-> FALSE, paragraphs |-> <<>>, tables |-> <<>>]
    /\ parser = NewParser
    /\ loaded = None
    /\ edits = 0
    /\ IdleTim
    /\ IdleTok
    /\ IdlePdf

refreshFrame ==
    <<site, served, today, hospitals_cache, shift_parser, target_date, schedule,
      requests, chosen, answer, prompted, confirmed, dialog_day, cache_file, docx, parser,
      loaded, edits, timVars, tokVars, pdfVars>>

\* refresh_data and what it calls; raises: an exception inside its try
\* block (the scraper catches its own failures and returns an empty list);
\* again: the call before was a refresh too, and took the same branch
RefreshData ==
    /\ \E raises \in BOOLEAN :
           LET st == refresh_data(Store, site, served, selected_date,
                                  hospitals_cache, raises)
           IN  /\ all_hospitals' = st.all
               /\ filtered_hospitals' = st.filtered
               /\ available_specialties' = st.available
               /\ selected_specialty' = st.selected
               /\ last' = [op |-> "refresh_data", raises |-> raises,
                           again |-> pc = "refresh_data" /\ last.raises = raises,
                           before |-> [store |-> Store,
                                       selected_date |-> selected_date,
                                       shift_parser |-> shift_parser]]
    /\ current_shift' = update_shift_display(shift_parser, current_shift, selected_date)
    /\ pc' = "refresh_data"
    /\ UNCHANGED <<selected_date, service_hospitals, refreshFrame>>

\* on_specialty_changed: the user picks a value of the combobox
OnSpecialtyChanged ==
    /\ \E i \in DOMAIN available_specialties :
           /\ selected_specialty' = available_specialties[i]
           /\ filtered_hospitals' =
                  filter_by_specialty(all_hospitals, available_specialties[i])
    /\ last' = [op |-> "on_specialty_changed"]
    /\ pc' = "on_specialty_changed"
    /\ UNCHANGED <<all_hospitals, available_specialties, selected_date,
                   current_shift, service_hospitals, refreshFrame>>

\* update_data of the service
UpdateData ==
    /\ service_hospitals' = fetch_hospital_data(site, served, today)
    /\ last' = [op |-> "update_data"]
    /\ pc' = "update_data"
    /\ UNCHANGED <<all_hospitals, filtered_hospitals, selected_specialty,
                   available_specialties, selected_date, current_shift, refreshFrame>>

NextRefresh == RefreshData \/ OnSpecialtyChanged \/ UpdateData

SpecRefresh == InitRefresh /\ [][NextRefresh]_vars

(***************************************************************************)
(* C13.  When the listing or the document cannot be fetched, a refresh     *)
(* ends with the records of the snapshot in the store if there is a        *)
(* snapshot, else with the sample data; never with an empty store.         *)
(***************************************************************************)
SourceUnavailable(date) ==
    \/ ~site.ok
    \/ /\ ~IsNone(matching_file(get_available_files(site), date))
       /\ ~served

SnapshotRecords ==
    [i \in DOMAIN Val(hospitals_cache).hospitals |->
        HospitalOfData(Val(hospitals_cache).hospitals[i])]

FallbackRecords ==
    IF ~IsNone(hospitals_cache) /\ Val(hospitals_cache).ok THEN SnapshotRecords
    ELSE get_sample_data(today)

C13_FallbackOnSourceFailure ==
    /\ (pc = "refresh_data" /\ SourceUnavailable(selected_date)) =>
           /\ all_hospitals = FallbackRecords
           /\ all_hospitals # <<>>
    /\ (pc = "update_data" /\ SourceUnavailable(today)) =>
           /\ service_hospitals = FallbackRecords
           /\ service_hospitals # <<>>

(***************************************************************************)
(* C16.  A refresh changes the store and nothing else: the selected date,  *)
(* the specialty the user selected and the shift set stay; and a second    *)
(* refresh on the same date and source leaves the state of the first.      *)
(***************************************************************************)
C16_RefreshIdempotent ==
    pc = "refresh_data" =>
        /\ selected_date = last.before.selected_date
        /\ shift_parser = last.before.shift_parser
        /\ selected_specialty = last.before.store.selected
        /\ last.again => Store = last.before.store


(***************************************************************************)
(* The daily refresh.  The clock counts ticks, TicksPerMs to a             *)
(* millisecond (datetime.now() is finer than the millisecond root.after    *)
(* counts in); a day has MsPerDay milliseconds and 08:00:00 is millisecond *)
(* TargetMs of each day.  A timer is the tick its callback is due at.      *)
(***************************************************************************)
TicksPerMs == 2
MsPerDay == 4
TargetMs == 1
MaxDays == 3
MaxRefreshTicks == 2

TicksPerDay == MsPerDay * TicksPerMs
Horizon == MaxDays * TicksPerDay

DayOf(t) == t \div TicksPerDay

\* date.today() at tick t
DateAt(t) == [day |-> 14 + DayOf(t), month |-> 10, year |-> 2025]

\* now.replace(hour=8, minute=0, second=0, microsecond=0)
EightOf(t) == DayOf(t) * TicksPerDay + TargetMs * TicksPerMs

\* target_time: if now >= target_time: target_time += timedelta(days=1)
target_time(t) == IF t >= EightOf(t) THEN EightOf(t) + TicksPerDay ELSE EightOf(t)

\* int(time_until_refresh): the milliseconds to the target, truncated
time_until_refresh(t) == (target_time(t) - t) \div TicksPerMs

\* schedule_daily_refresh at tick t: root.after holds one more callback
schedule_daily_refresh(ts, t) == Append(ts, t + time_until_refresh(t) * TicksPerMs)

\* an auto_refresh that arms the next timer inside the try block of the refresh
auto_refresh_arming_on_success(ts, t, raises) ==
    IF raises THEN ts ELSE schedule_daily_refresh(ts, t)

\* auto_refresh after refresh_data returned: the timers it leaves
auto_refresh_arming(ts, t, raises) == schedule_daily_refresh(ts, t)

Due(t) == {i \in DOMAIN timers : timers[i] <= t}

RemoveAt(s, i) == SubSeq(s, 1, i - 1) \o SubSeq(s, i + 1, Len(s))

TimerSites == { [ok |-> FALSE, links |-> <<>>] }

InitTimer ==
    /\ pc = "off"
    /\ clock \in 0 .. (TicksPerDay - 1)
    /\ timers = <<>>
    /\ fired = <<>>
    /\ site \in TimerSites
    /\ served = TRUE
    /\ today = DateAt(clock)
    /\ selected_date = today
    /\ hospitals_cache \in Snapshots
    /\ shift_parser = None
    /\ current_shift = None
    /\ all_hospitals = <<>>
    /\ filtered_hospitals = <<>>
    /\ selected_specialty = <<"Kardiologia">>
    /\ available_specialties = <<>>
    /\ service_hospitals = <<>>
    /\ last = [op |-> "none"]
    /\ target_date = [day |-> 1, month |-> 1, year |-> 2025]
    /\ schedule = <<>>
    /\ requests = <<>>
    /\ chosen = None
    /\ answer = FALSE
    /\ prompted = FALSE
    /\ confirmed = FALSE
    /\ dialog_day = <<>>
    /\ cache_file = None
    /\ docx = [opens |-> FALSE, paragraphs |-> <<>>, tables |-> <<>>]
    /\ parser = NewParser
    /\ loaded = None
    /\ edits = 0
    /\ IdleTok
    /\ IdlePdf

timerFrame ==
    <<site, served, hospitals_cache, shift_parser, service_hospitals, target_date,
      schedule, requests, chosen, answer, prompted, confirmed, dialog_day, cache_file, docx,
      parser, loaded, edits, tokVars, pdfVars>>

\* what refresh_data stores, then update_shift_display
Refreshed(raises) ==
    LET st == refresh_data(Store, site, served, selected_date, hospitals_cache, raises)
    IN  /\ all_hospitals' = st.all
        /\ filtered_hospitals' = st.filtered
        /\ available_specialties' = st.available
        /\ selected_specialty' = st.selected
        /\ current_shift' = update_shift_display(shift_parser, current_shift, selected_date)

\* __init__ (no shift file): the first refresh, then the first timer
StartTimer ==
    /\ pc = "off"
    /\ \E raises \in BOOLEAN :
           /\ Refreshed(raises)
           /\ last' = [op |-> "__init__", raises |-> raises]
    /\ timers' = schedule_daily_refresh(timers, clock)
    /\ pc' = "idle"
    /\ UNCHANGED <<clock, fired, today, selected_date, timerFrame>>

\* a refresh takes time: the clock tells two firings apart
MayFire == IF fired = <<>> THEN TRUE ELSE fired[Len(fired)] < clock

\* the event loop, idle, runs a callback that is due: auto_refresh up to its
\* call of refresh_data
AutoRefreshFires ==
    /\ pc = "idle"
    /\ MayFire
    /\ \E i \in Due(clock) : timers' = RemoveAt(timers, i)
    /\ fired' = Append(fired, clock)
    /\ selected_date' = today
    /\ last' = [op |-> "auto_refresh", raises |-> FALSE, ended |-> FALSE]
    /\ pc' = "auto_refresh"
    /\ UNCHANGED <<clock, today, current_shift, all_hospitals, filtered_hospitals,
                   selected_specialty, available_specialties, timerFrame>>

\* auto_refresh from the return of refresh_data (or of its except branch) on
\* to its end: update_shift_display and schedule_daily_refresh
AutoRefreshEnds ==
    /\ pc = "auto_refresh"
    /\ \E raises \in BOOLEAN :
           /\ Refreshed(raises)
           /\ timers' = auto_refresh_arming(timers, clock, raises)
           /\ last' = [op |-> "auto_refresh", raises |-> raises, ended |-> TRUE]
    /\ pc' = "idle"
    /\ UNCHANGED <<clock, fired, today, selected_date, timerFrame>>

\* a tick of the clock: not while the idle event loop has a callback due, and
\* not for longer than a refresh takes while one is running
Tick ==
    /\ pc # "off"
    /\ clock + 1 < Horizon
    /\ ~(pc = "idle" /\ Due(clock) # {} /\ MayFire)
    /\ ~(pc = "auto_refresh" /\ clock - fired[Len(fired)] >= MaxRefreshTicks)
    /\ clock' = clock + 1
    /\ today' = DateAt(clock + 1)
    /\ UNCHANGED <<pc, timers, fired, last, selected_date, current_shift, all_hospitals,
                   filtered_hospitals, selected_specialty, available_specialties,
                   timerFrame>>

NextTimer == StartTimer \/ AutoRefreshFires \/ AutoRefreshEnds \/ Tick

SpecTimer == InitTimer /\ [][NextTimer]_vars

\* the application starts, the clock runs, the event loop runs the callbacks
\* that are due, and a refresh returns
SpecTimerFair ==
    /\ SpecTimer
    /\ WF_vars(StartTimer)
    /\ WF_vars(Tick)
    /\ WF_vars(AutoRefreshFires)
    /\ WF_vars(AutoRefreshEnds)

(***************************************************************************)
(* C14.  No firing of auto_refresh is before 08:00 of its day, and no two  *)
(* firings are on the same day.                                            *)
(***************************************************************************)
C14_OncePerDayNotBeforeEight ==
    /\ \A i \in DOMAIN fired : fired[i] >= EightOf(fired[i])
    /\ \A i, j \in DOMAIN fired : i # j => DayOf(fired[i]) # DayOf(fired[j])

(***************************************************************************)
(* C15.  While the application is idle exactly one timer is pending, while *)
(* a fired refresh runs none is (the next one is armed when the refresh    *)
(* has ended, completed or failed), and every day after the day of the     *)
(* start has a firing.                                                     *)
(***************************************************************************)
C15_OneTimerPending ==
    /\ pc = "idle" => Len(timers) = 1
    /\ pc = "auto_refresh" => timers = <<>>

DaysOfMonth(shifts) ==
    \A d \in DOMAIN shifts : d \in 1 .. 31 /\ shifts[d].day = d

C19_DayKeysInMonth ==
    /\ pc # "start" => DaysOfMonth(parser.shifts)
    /\ ~IsNone(loaded) => DaysOfMonth(Val(loaded).shifts)


(***************************************************************************)
(* C20.  A data row (a row after the header row of its table) whose        *)
(* column 0 is missing, None, empty, blank, or the header literal gives no *)
(* record: a document yields what it yields with every such row taken out, *)
(* and a table of a header row and one such row yields nothing.            *)
(***************************************************************************)
ExcludedRow(row) ==
    \/ row = <<>>
    \/ IsNone(row[1])
    \/ Strip(Val(row[1])) = <<>>
    \/ Val(row[1]) = Klinikes

\* the table with the excluded rows after its header row taken out
WithoutExcludedRows(table) ==
    IF HeaderRow(table) = 0 THEN table
    ELSE LET Kept(row) == ~ExcludedRow(row)
         IN  SubSeq(table, 1, HeaderRow(table)) \o
                 SelectSeq(SubSeq(table, HeaderRow(table) + 1, Len(table)), Kept)

WithoutExcluded(doc) ==
    [doc EXCEPT !.pages =
        [p \in DOMAIN doc.pages |->
            [doc.pages[p] EXCEPT !.tables =
                [t \in DOMAIN doc.pages[p].tables |->
                    WithoutExcludedRows(doc.pages[p].tables[t])]]]]

C20_BlankSpecialtyRowsExcluded ==
    pc = "parse_pdf" =>
        /\ hospitals = parse_pdf(WithoutExcluded(pdf), duty_date)
        /\ (pdf \in RowDocs /\ ExcludedRow(pdf.pages[1].tables[1][2])) =>
               hospitals = <<>>

\* a data row of a blank specialty and a cell of two hospitals
C20_Witness ==
    /\ pc = "parse_pdf"
    /\ pdf = OnePage(<< <<TheHeaderRow,
                         <<Some(<<" ">>), Some(<<"K", "\n", "E">>)>> >> >>)
    /\ hospitals = <<>>


(***************************************************************************)
(* C21.  The tokenizer returns the empty list for a cell text that is      *)
(* empty or made of whitespace only.                                       *)
(***************************************************************************)
WhitespaceOnly(t) == \A i \in DOMAIN t : t[i] \in Whitespace

C21_BlankCellNoNames ==
    (pc = "extract_hospital_names" /\ WhitespaceOnly(text)) => hospital_names = <<>>

\* a cell of a space, a line break and a space
C21_Witness ==
    /\ pc = "extract_hospital_names"
    /\ text = <<" ", "\n", " ">>
    /\ hospital_names = <<>>


(***************************************************************************)
(* C23.  Every name the tokenizer returns is a canonical name of the       *)
(* registry, or is the trimmed text of a fragment of the cell that holds   *)
(* no abbreviation and holds one of the institutional prefixes.            *)
(***************************************************************************)
CanonicalNames == {HOSPITAL_NAMES[i].full : i \in DOMAIN HOSPITAL_NAMES}

\* the trimmed fragments of the cell that are kept as they are
VerbatimFragments(t) ==
    {f \in {Strip(ReSplit(t)[i]) : i \in DOMAIN ReSplit(t)} :
        Matching(f) = {} /\ LooksInstitutional(f)}

C23_UnmatchedVerbatimOrDropped ==
    pc = "extract_hospital_names" =>
        \A i \in DOMAIN hospital_names :
            \/ hospital_names[i] \in CanonicalNames
            \/ hospital_names[i] \in VerbatimFragments(text)


(***************************************************************************)
(* athens_hospitals.py: search_by_specialty and search_by_area.            *)
(*                                                                         *)
(* A letter is a symbol: "a" and "k" are small, "A" and "K" capital, "a'"  *)
(* is "a" with an accent mark and "A'" its capital.                        *)
(***************************************************************************)
\* str.lower(), letter by letter
LowerLetter(c) ==
    CASE c = "A" -> "a"
      [] c = "A'" -> "a'"
      [] c = "K" -> "k"
      [] OTHER -> c

LowerCase(s) == [i \in DOMAIN s |-> LowerLetter(s[i])]

\* remove_accents: NFD, then the combining marks dropped
Unaccented(c) ==
    CASE c = "a'" -> "a"
      [] c = "A'" -> "A"
      [] OTHER -> c

remove_accents(s) == [i \in DOMAIN s |-> Unaccented(s[i])]

search_by_specialty(stored, specialty_keyword) ==
    LET Found(h) == Contains(LowerCase(h.specialty), LowerCase(specialty_keyword))
    IN  SelectSeq(stored, Found)

search_by_area(stored, area_keyword) ==
    LET Found(h) == Contains(LowerCase(h.area), LowerCase(area_keyword))
    IN  SelectSeq(stored, Found)

(***************************************************************************)
(* A service holding at most MaxStored records, searched any number of     *)
(* times.                                                                  *)
(***************************************************************************)
MaxStored == 2

SearchTexts == { <<"K", "a'">>, <<"k", "a">>, <<"A'", "k">>, <<>> }

Keywords == { <<"a">>, <<"a'">>, <<"K">>, <<"k", "A">>, <<>> }

StoredRecords ==
    {[name |-> <<"Kat">>, specialty |-> s, area |-> a] :
        s \in SearchTexts, a \in SearchTexts}

InitSearch ==
    /\ pc = "start"
    /\ service_hospitals \in SeqsUpTo(StoredRecords, MaxStored)
    /\ last = [op |-> "none"]
    /\ all_hospitals = <<>>
    /\ filtered_hospitals = <<>>
    /\ selected_specialty = <<"Kardiologia">>
    /\ available_specialties = <<>>
    /\ hospitals_cache = None
    /\ docx = [opens |-> FALSE, paragraphs |-> <<>>, tables |-> <<>>]
    /\ parser = NewParser
    /\ cache_file = None
    /\ loaded = None
    /\ edits = 0
    /\ IdleTok
    /\ IdlePdf
    /\ IdleSch
    /\ IdleGui
    /\ IdleApp
    /\ IdleTim

searchFrame ==
    <<service_hospitals, all_hospitals, filtered_hospitals, selected_specialty,
      available_specialties, hospitals_cache, docx, parser, cache_file, loaded,
      edits, tokVars, pdfVars, schVars, guiVars, appVars, timVars>>

SearchBySpecialty ==
    /\ \E k \in Keywords :
           last' = [op |-> "search_by_specialty", keyword |-> k,
                    result |-> search_by_specialty(service_hospitals, k)]
    /\ pc' = "search_by_specialty"
    /\ UNCHANGED searchFrame

SearchByArea ==
    /\ \E k \in Keywords :
           last' = [op |-> "search_by_area", keyword |-> k,
                    result |-> search_by_area(service_hospitals, k)]
    /\ pc' = "search_by_area"
    /\ UNCHANGED searchFrame

NextSearch == SearchBySpecialty \/ SearchByArea

SpecSearch == InitSearch /\ [][NextSearch]_vars

(***************************************************************************)
(* C22.  A search returns, in stored order, exactly the stored records     *)
(* whose specialty (or area) contains the keyword when letter case and     *)
(* accent marks are ignored on both sides.                                 *)
(***************************************************************************)
Folded(s) == remove_accents(LowerCase(s))

C22_SearchIgnoresCaseAndAccents ==
    /\ pc = "search_by_specialty" =>
           LET Wanted(h) == Contains(Folded(h.specialty), Folded(last.keyword))
           IN  last.result = SelectSeq(service_hospitals, Wanted)
    /\ pc = "search_by_area" =>
           LET Wanted(h) == Contains(Folded(h.area), Folded(last.keyword))
           IN  last.result = SelectSeq(service_hospitals, Wanted)


(***************************************************************************)
(* _parse_attending_table and _parse_resident_table, each applied to a     *)
(* table of its own: on a new parser, or on a parser that holds the set an *)
(* earlier parse and update_shift left (parse does not empty the set).     *)
(***************************************************************************)
MaxTableParses == 2

TableAttRows ==
    { << <<" ", "1">>, <<"OKT">>, <<"TRI">>, <<"A", "\n", "B", "*", "\n", " ", "C", " ">> >>,
      << <<"1">>, <<"NOE">>, <<"TET">>, <<"*", "D">> >>,
      << <<"x">>, <<"OKT">>, <<"TRI">>, <<"A">> >>,
      << <<"2">>, <<"OKT">>, <<"TET">> >>,
      << <<"2">>, <<"OKT">>, <<"TET">>, <<"B">> >> }

TableResRows ==
    { << <<"1">>, <<"OKT">>, <<"TRI">>, <<"R3">>, <<"R4">>, <<"R5">>, <<"R6">>,
         <<"R7">>, <<"R8">> >>,
      << <<"2">>, <<"OKT">>, <<"TET">>, <<"S3">>, <<>>, <<" ">> >>,
      << <<"x">>, <<"OKT">>, <<"TRI">>, <<"R3">>, <<"R4">>, <<"R5">> >>,
      << <<"2">>, <<"OKT">>, <<"TET">>, <<"R3">>, <<"R4">> >>,
      << <<"1">>, <<"OKT">>, <<"TRI">>, <<>>, <<"U4">>, <<>>, <<"U6">> >> }

EarlierShifts ==
    Put(<<>>, 1,
        [DailyShift(1, <<"OKT">>, <<"TRI">>, << <<"Z">> >>) EXCEPT
            !.major_shift = Some(<<"M">>),
            !.senior_cardiac_surgeon = Some(<<"S">>),
            !.pediatric_cardiologist = Some(<<"P">>)])

InitTables ==
    /\ pc = "start"
    /\ parser \in {NewParser, [NewParser EXCEPT !.shifts = EarlierShifts]}
    /\ docx = [opens |-> FALSE, paragraphs |-> <<>>, tables |-> <<>>]
    /\ last = [op |-> "none"]
    /\ cache_file = None
    /\ loaded = None
    /\ edits = 0
    /\ IdleGui
    /\ IdleApp
    /\ IdleRef
    /\ IdleTim
    /\ IdleTok
    /\ IdlePdf
    /\ IdleSch

tablesFrame ==
    <<docx, cache_file, loaded, guiVars, appVars, refVars, timVars, tokVars,
      pdfVars, schVars>>

\* edits counts the tables parsed
ParseAttendingTable ==
    /\ pc \in {"start", "parse_resident_table"}
    /\ edits < MaxTableParses
    /\ \E rows \in SeqsUpTo(TableAttRows, MaxAttRows) :
           /\ parser' = [parser EXCEPT !.shifts = parse_attending_table(@, rows)]
           /\ last' = [op |-> "parse_attending_table", rows |-> rows,
                       before |-> parser.shifts]
    /\ edits' = edits + 1
    /\ pc' = "parse_attending_table"
    /\ UNCHANGED tablesFrame

ParseResidentTable ==
    /\ pc = "parse_attending_table"
    /\ edits < MaxTableParses
    /\ \E rows \in SeqsUpTo(TableResRows, MaxResRows) :
           /\ parser' = [parser EXCEPT !.shifts = parse_resident_table(@, rows)]
           /\ last' = [op |-> "parse_resident_table", rows |-> rows,
                       before |-> parser.shifts]
    /\ edits' = edits + 1
    /\ pc' = "parse_resident_table"
    /\ UNCHANGED tablesFrame

NextTables == ParseAttendingTable \/ ParseResidentTable

SpecTables == InitTables /\ [][NextTables]_vars

(***************************************************************************)
(* C24.  After the attending table: the days are the days before and the   *)
(* integer days of the rows of 4 cells or more; a day of no such row has   *)
(* the record it had; a day of such a row has, as attending list, the      *)
(* names of the name cell of the last such row (the trimmed non-empty      *)
(* lines without an asterisk, in order), and otherwise the record it had,  *)
(* or a record of no roles if it had none.                                 *)
(***************************************************************************)
\* the rows read for day d
RowsOfDay(rows, d, first, cells) ==
    {i \in DOMAIN rows :
        i >= first /\ Len(rows[i]) >= cells /\ PyInt(rows[i][1]) = Some(d)}

DaysOfRows(rows, first, cells) ==
    {d \in DayRange : RowsOfDay(rows, d, first, cells) # {}}

\* the positions of the lines of a cell that name an attending
NamedLines(cell) ==
    {i \in DOMAIN Split(Strip(cell), "\n") :
        /\ Strip(Split(Strip(cell), "\n")[i]) # <<>>
        /\ ~Contains(Split(Strip(cell), "\n")[i], <<"*">>)}

IsNamesOf(list, cell) ==
    /\ Len(list) = Cardinality(NamedLines(cell))
    /\ \A k \in DOMAIN list :
           list[k] = Strip(Split(Strip(cell), "\n")[Kth(NamedLines(cell), k)])

C24_AttendingRows ==
    pc = "parse_attending_table" =>
        LET rows == last.rows
            before == last.before
            after == parser.shifts
        IN  /\ DOMAIN after = DOMAIN before \cup DaysOfRows(rows, 1, 4)
            /\ \A d \in DOMAIN before \ DaysOfRows(rows, 1, 4) : after[d] = before[d]
            /\ \A d \in DaysOfRows(rows, 1, 4) :
                   /\ IsNamesOf(after[d].attendings,
                                rows[LastOf(RowsOfDay(rows, d, 1, 4))][4])
                   /\ d \in DOMAIN before =>
                          after[d] = [before[d] EXCEPT !.attendings = after[d].attendings]
                   /\ d \notin DOMAIN before =>
                          /\ after[d].day = d
                          /\ \A f \in RoleFields : after[d][f] = None

\* day 1 twice, on a set that holds day 1 with roles: the last row's names,
\* the starred one left out, and the roles kept
C24_Witness ==
    /\ pc = "parse_attending_table"
    /\ 1 \in DOMAIN last.before
    /\ Len(last.rows) = 2
    /\ Len(last.rows[1]) = 4
    /\ last.rows[1][4] = <<"*", "D">>
    /\ parser.shifts[1].attendings = << <<"A">>, <<"C">> >>
    /\ parser.shifts[1].senior_cardiac_surgeon = Some(<<"S">>)

(***************************************************************************)
(* C25.  After the resident table: row 0 gives nothing; the days are the   *)
(* days before and the integer days of the later rows of 6 cells or more;  *)
(* a day of such a row has the six roles of columns 3..8 of the last such  *)
(* row, each unset where the column is absent or empty, and otherwise the  *)
(* record it had (attending list and surgeons included), or a record of an *)
(* empty attending list and no surgeons if it had none.                    *)
(***************************************************************************)
ResidentFields ==
    << "major_shift", "minor_shift", "tep_cardiologist", "anesthesiologist_1",
       "anesthesiologist_2", "pediatric_cardiologist" >>

C25_ResidentRows ==
    pc = "parse_resident_table" =>
        LET rows == last.rows
            before == last.before
            after == parser.shifts
        IN  /\ DOMAIN after = DOMAIN before \cup DaysOfRows(rows, 2, 6)
            /\ \A d \in DOMAIN before \ DaysOfRows(rows, 2, 6) : after[d] = before[d]
            /\ \A d \in DaysOfRows(rows, 2, 6) :
                   LET row == rows[LastOf(RowsOfDay(rows, d, 2, 6))]
                   IN  /\ \A k \in DOMAIN ResidentFields :
                              /\ after[d][ResidentFields[k]] = RoleCell(row, k + 2)
                              /\ after[d][ResidentFields[k]] # Some(<<>>)
                       /\ d \in DOMAIN before =>
                              /\ after[d].attendings = before[d].attendings
                              /\ after[d].senior_cardiac_surgeon =
                                     before[d].senior_cardiac_surgeon
                              /\ after[d].junior_cardiac_surgeon =
                                     before[d].junior_cardiac_surgeon
                              /\ after[d].weekday = before[d].weekday
                       /\ d \notin DOMAIN before =>
                              /\ after[d].day = d
                              /\ after[d].attendings = <<>>
                              /\ after[d].senior_cardiac_surgeon = None
                              /\ after[d].junior_cardiac_surgeon = None

\* a row 0 of day 2 and a row of day 1 with empty columns, on a set that
\* holds day 1 with an attending, a surgeon and roles
C25_Witness ==
    /\ pc = "parse_resident_table"
    /\ 1 \in DOMAIN last.before
    /\ last.before[1].senior_cardiac_surgeon = Some(<<"S">>)
    /\ Len(last.rows) = 2
    /\ last.rows[1][1] = <<"2">>
    /\ Len(last.rows[1]) = 6
    /\ DOMAIN parser.shifts = {1}
    /\ parser.shifts[1].major_shift = None
    /\ parser.shifts[1].minor_shift = Some(<<"U4">>)
    /\ parser.shifts[1].pediatric_cardiologist = None
    /\ parser.shifts[1].senior_cardiac_surgeon = Some(<<"S">>)
    /\ parser.shifts[1].attendings # <<>>


(***************************************************************************)
(* C26.  A table yields the records of the rows after the first of its     *)
(* first 5 rows that holds the header marker, and nothing when none of its *)
(* first 5 rows holds it; the rows at and above that row yield nothing.    *)
(***************************************************************************)
MarkerRowsOfFirstFive(table) == {i \in DOMAIN table : i <= 5 /\ HasMarker(table[i])}

RowsAfterHeader(table, date) ==
    IF MarkerRowsOfFirstFive(table) = {} THEN <<>>
    ELSE LET h == CHOOSE i \in MarkerRowsOfFirstFive(table) :
                      \A j \in MarkerRowsOfFirstFive(table) : i <= j
         IN  Flatten([k \in 1..(Len(table) - h) |-> RowRecords(table[h + k], date)])

C26_HeaderInFirstFiveRows ==
    (pc = "parse_pdf" /\ AllRead(pdf)) =>
        hospitals =
            Flatten([p \in DOMAIN pdf.pages |->
                Flatten([t \in DOMAIN pdf.pages[p].tables |->
                    RowsAfterHeader(pdf.pages[p].tables[t], duty_date)])])

\* a table whose only marker is in row 6, with data rows above and below
C26_Witness ==
    /\ pc = "parse_pdf"
    /\ pdf = OnePage(<< <<RowA, RowA, RowA, RowA, RowA, TheHeaderRow, RowA>> >>)
    /\ hospitals = <<>>


(***************************************************************************)
(* cardiology_display.py: display_hospitals, the grouping by time slot and *)
(* the columns.  A group is [label, hospitals]; a column is the sequence   *)
(* of the groups packed into it, top to bottom.                            *)
(***************************************************************************)
\* the label of the records without a time slot
AllDay == "Oli tin imera"

\* the labels in the order of sorted(): digits before Greek letters
LabelOrder ==
    << "08:00-08:00 next day", "08:00-14:30", "08:00-16:00", "08:00-23:00",
       "14:30-08:00 next day", AllDay >>

\* the key of a record as its time slot alone, without the default
TimeSlotOfRaw(h) == h.time_slot

\* hospital.time_slot or "Oli tin imera"
TimeSlotOf(h) == IF h.time_slot = "" THEN AllDay ELSE h.time_slot

\* by_time_slot[label]: the records of the label, in the order met
GroupOf(shown, label) ==
    LET InGroup(h) == TimeSlotOf(h) = label
    IN  SelectSeq(shown, InGroup)

\* sorted(by_time_slot.items())
sorted_slots(shown) ==
    LET Present(label) == \E i \in DOMAIN shown : TimeSlotOf(shown[i]) = label
        labels == SelectSeq(LabelOrder, Present)
    IN  [i \in DOMAIN labels |->
            [label |-> labels[i], hospitals |-> GroupOf(shown, labels[i])]]

\* min(len(sorted_slots), 3)
num_columns(slots) == IF Len(slots) < 3 THEN Len(slots) ELSE 3

\* display_hospitals: [no_data: the "no data" label is shown, groups, columns]
display_hospitals(shown) ==
    IF shown = <<>> THEN [no_data |-> TRUE, groups |-> <<>>, columns |-> <<>>]
    ELSE LET slots == sorted_slots(shown)
             n == num_columns(slots)
             Column(c) ==
                 LET Here(g) == \E i \in DOMAIN slots :
                                    slots[i] = g /\ (i - 1) % n = c - 1
                 IN  SelectSeq(slots, Here)
         IN  [no_data |-> FALSE, groups |-> slots,
              columns |-> [c \in 1..n |-> Column(c)]]

(***************************************************************************)
(* display_hospitals applied to every list of at most MaxShown records.    *)
(***************************************************************************)
MaxShown == 4

ShownRecords ==
    {Hospital(<<"Kat">>, <<"Kardiologia / Cardiology">>, slot, "2025-10-14") :
        slot \in {"", "08:00-14:30", "08:00-16:00", "08:00-23:00",
                  "14:30-08:00 next day"}}
    \cup {Hospital(<<"Elpis">>, <<"Kardiologia / Cardiology">>, slot, "2025-10-14") :
        slot \in {"", "08:00-14:30"}}

InitDisplay ==
    /\ pc = "start"
    /\ filtered_hospitals \in SeqsUpTo(ShownRecords, MaxShown)
    /\ all_hospitals = filtered_hospitals
    /\ selected_specialty = <<"Kardiologia">>
    /\ available_specialties = <<AllSpecialties, <<"Kardiologia">> >>
    /\ hospitals_cache = None
    /\ service_hospitals = <<>>
    /\ IdleShift
    /\ IdleTok
    /\ IdlePdf
    /\ IdleSch
    /\ IdleGui
    /\ IdleApp
    /\ IdleTim

DisplayHospitals ==
    /\ pc = "start"
    /\ last' = [op |-> "display_hospitals",
                shown |-> display_hospitals(filtered_hospitals)]
    /\ pc' = "display_hospitals"
    /\ UNCHANGED <<docx, parser, cache_file, loaded, edits, refVars, tokVars, pdfVars,
                   schVars, guiVars, appVars, timVars>>

NextDisplay == DisplayHospitals

SpecDisplay == InitDisplay /\ [][NextDisplay]_vars

(***************************************************************************)
(* C27.  The groups partition the records shown: the group of a label      *)
(* holds exactly the records of that time slot ("all day" for an empty     *)
(* one) in their order, every record's label has a group, and the labels   *)
(* are in ascending order.  The columns are min(groups, 3); the i-th group *)
(* (from 0) is in column i mod that number and in no other.                *)
(***************************************************************************)
ClaimedLabel(h) == IF h.time_slot = "" THEN AllDay ELSE h.time_slot

LabelRank(label) == CHOOSE k \in DOMAIN LabelOrder : LabelOrder[k] = label

\* the number of times group g occurs in column c
TimesIn(column, g) == Cardinality({k \in DOMAIN column : column[k] = g})

C27_GroupsPartitionAndColumns ==
    pc = "display_hospitals" =>
        LET groups == last.shown.groups
            columns == last.shown.columns
            n == IF Len(groups) < 3 THEN Len(groups) ELSE 3
        IN  /\ \A i \in DOMAIN filtered_hospitals :
                   Cardinality({g \in DOMAIN groups :
                       groups[g].label = ClaimedLabel(filtered_hospitals[i])}) = 1
            /\ \A g \in DOMAIN groups :
                   LET Labelled(h) == ClaimedLabel(h) = groups[g].label
                   IN  /\ groups[g].hospitals = SelectSeq(filtered_hospitals, Labelled)
                       /\ groups[g].hospitals # <<>>
            /\ \A g, h \in DOMAIN groups :
                   g < h => LabelRank(groups[g].label) < LabelRank(groups[h].label)
            /\ Len(columns) = n
            /\ \A g \in DOMAIN groups : \A c \in DOMAIN columns :
                   TimesIn(columns[c], groups[g]) =
                       IF (g - 1) % n = c - 1 THEN 1 ELSE 0

\* four groups, one of two records and one of a record without a time
\* slot: the fourth group is under the first, in column 0
C27_Witness ==
    /\ pc = "display_hospitals"
    /\ Len(last.shown.groups) = 4
    /\ Len(last.shown.columns) = 3
    /\ Len(last.shown.columns[1]) = 2
    /\ last.shown.columns[1][2].label = AllDay
    /\ last.shown.groups[1].label = "08:00-14:30"


(***************************************************************************)
(* C28.  A save of the edit dialog changes the record of the day the       *)
(* dialog was opened for, and the record of no other day, whatever ran     *)
(* while the dialog was open.                                              *)
(***************************************************************************)
C28_SaveWritesDialogDay ==
    (last.op = "save_changes" /\ ~IsNone(shift_parser)) =>
        \A d \in DOMAIN Val(shift_parser).shifts :
            d # Val(last.dialog_day) =>
                /\ d \in DOMAIN last.before.shifts
                /\ Val(shift_parser).shifts[d] = last.before.shifts[d]


(***************************************************************************)
(* C29.  With the listing fetched, get_schedule_for_date asks for a        *)
(* document if and only if a link to a document has a label that denotes   *)
(* the date (its day number, month and year), and then asks for the first  *)
(* such link's document.                                                   *)
(***************************************************************************)
\* the label holds the day number, the month and the year of d, and the
\* day number is not the tail of a longer number
DenotesDate(label, d) ==
    \E i \in DOMAIN label :
        /\ MatchAt(label,
                   Digits(d.day) \o <<" ", greek_months[d.month], " ", ToString(d.year)>>,
                   i)
        /\ (i = 1 \/ DigitValue(label[i - 1]) < 0)

LinksDenoting(d) ==
    {i \in DOMAIN site.links :
        ~IsNone(site.links[i].href) /\ DenotesDate(site.links[i].text, d)}

C29_SelectsExactDate ==
    (pc = "get_schedule_for_date" /\ site.ok) =>
        IF LinksDenoting(target_date) = {} THEN requests = <<>>
        ELSE /\ requests # <<>>
             /\ requests[1].fdl =
                    Val(site.links[CHOOSE i \in LinksDenoting(target_date) :
                        \A j \in LinksDenoting(target_date) : i <= j].href)


(***************************************************************************)
(* C30.  Between handlers the list shown is the store itself when "all     *)
(* specialties" is selected, and otherwise exactly the records of the      *)
(* store whose Greek specialty part is the specialty selected.             *)
(***************************************************************************)
C30_FilteredMatchesStore ==
    pc # "start" =>
        IF selected_specialty = AllSpecialties
        THEN filtered_hospitals = all_hospitals
        ELSE LET Selected(h) == GreekPart(h.specialty) = selected_specialty
             IN  filtered_hospitals = SelectSeq(all_hospitals, Selected)

=============================================================================
